---- MODULE Spec2Model ----
(***************************************************************************)
(* Model of the OneFlow API feasibility assistant:                         *)
(*   components/feasibility_analyzer.py   the simple assessment engine     *)
(*   components/api_docs_processor.py     specification fetch + cache      *)
(*   load_integration_docs.py             the document loader              *)
(*   enhanced_feasibility_analyzer.py     the hybrid retrieval engine      *)
(* Python strings are TLA+ strings (TLC evaluates Len, \o and SubSeq on    *)
(* them), so substring tests, lower() and endswith() are computed on the   *)
(* characters.  A Python call that may raise is an operator returning a    *)
(* record [raised, value, error].                                          *)
(***************************************************************************)
EXTENDS Integers, Sequences, FiniteSets, TLC

VARIABLES
    sales_question,   \* argument of FeasibilityAnalyzer.assess_feasibility
    model_reply,      \* what client.chat.completions.create does in that call
    assessment,       \* what assess_feasibility returned (NoValue before the call)
    simple_pc,        \* "ready" before the call, "done" after it
    upstream,         \* the text the specification URL serves at present
    spec_file,        \* data/oneflow_api_spec.yml: NoFile or [text]
    kb_file,          \* data/knowledge_base.json: NoFile or [text, age in hours]
    knowledge_base,   \* APIDocsProcessor.knowledge_base (NoValue before __init__)
    kb_trace,         \* the last __init__ / refresh_cache: what it found and did
    last_download,    \* text of the most recent successful download (NoValue if none)
    folder,           \* load_documents_from_folder: NoFolder or the files of the folder
    documents,        \* what load_documents_from_folder returned (NoValue before the call)
    vector_stores,    \* EnhancedFeasibilityAnalyzer.vector_stores: collection -> documents
    hybrid_trace,     \* the last call made on the enhanced analyzer and what it did
    response_request, \* arguments of ResponseGenerator.generate_response
    response,         \* what generate_response did (NoValue before the call)
    manager_call,     \* DualAnalyzerManager.assess_feasibility: arguments and analyzers
    manager_result,   \* what that call did (NoValue before the call)
    seed_spec,        \* the specification APIDocsProcessor builds its knowledge base from
    seed_kb,          \* the knowledge base built from it (NoValue before the build)
    seed_stores,      \* the collections EnhancedFeasibilityAnalyzer() populated from it
    conversation_history, \* st.session_state.conversation_history of main_enhanced
    assessment_count,     \* st.session_state.assessment_count
    ui_trace              \* the last script run of main_enhanced that a button started

simpleVars == <<sales_question, model_reply, assessment, simple_pc>>
kbVars == <<upstream, spec_file, kb_file, knowledge_base, kb_trace, last_download>>
loaderVars == <<folder, documents>>
hybridVars == <<vector_stores, hybrid_trace>>
responseVars == <<response_request, response>>
managerVars == <<manager_call, manager_result>>
seedVars == <<seed_spec, seed_kb, seed_stores>>
uiVars == <<conversation_history, assessment_count, ui_trace>>

vars == <<simpleVars, kbVars, loaderVars, hybridVars, responseVars, managerVars, seedVars, uiVars>>

\* what the other components' variables do while one component takes a step
exceptSimple == <<kbVars, loaderVars, hybridVars, responseVars, managerVars, seedVars, uiVars>>
exceptKB == <<simpleVars, loaderVars, hybridVars, responseVars, managerVars, seedVars, uiVars>>
exceptLoader == <<simpleVars, kbVars, hybridVars, responseVars, managerVars, seedVars, uiVars>>
exceptHybrid == <<simpleVars, kbVars, loaderVars, responseVars, managerVars, seedVars, uiVars>>
exceptResponse == <<simpleVars, kbVars, loaderVars, hybridVars, managerVars, seedVars, uiVars>>
exceptManager == <<simpleVars, kbVars, loaderVars, hybridVars, responseVars, seedVars, uiVars>>
exceptSeed == <<simpleVars, kbVars, loaderVars, hybridVars, responseVars, managerVars, uiVars>>
exceptUI == <<simpleVars, kbVars, loaderVars, hybridVars, responseVars, managerVars, seedVars>>

NoValue == [t |-> "none"]

(***************************************************************************)
(* Python values that a JSON document or an assessment field can hold.     *)
(***************************************************************************)
Str(s) == [t |-> "str", v |-> s]
List(q) == [t |-> "list", v |-> q]
Bool(b) == [t |-> "bool", v |-> b]
Null == [t |-> "null", v |-> ""]

Ok(v) == [raised |-> FALSE, value |-> v, error |-> ""]
Raise(e) == [raised |-> TRUE, value |-> NoValue, error |-> e]

(***************************************************************************)
(* str.lower(), the `in` operator on strings, str.strip() emptiness.       *)
(***************************************************************************)
LowerChar(c) ==
    CASE c = "A" -> "a" [] c = "B" -> "b" [] c = "C" -> "c" [] c = "D" -> "d"
      [] c = "E" -> "e" [] c = "F" -> "f" [] c = "G" -> "g" [] c = "H" -> "h"
      [] c = "I" -> "i" [] c = "J" -> "j" [] c = "K" -> "k" [] c = "L" -> "l"
      [] c = "M" -> "m" [] c = "N" -> "n" [] c = "O" -> "o" [] c = "P" -> "p"
      [] c = "Q" -> "q" [] c = "R" -> "r" [] c = "S" -> "s" [] c = "T" -> "t"
      [] c = "U" -> "u" [] c = "V" -> "v" [] c = "W" -> "w" [] c = "X" -> "x"
      [] c = "Y" -> "y" [] c = "Z" -> "z" [] OTHER -> c

RECURSIVE lower(_)
lower(s) ==
    IF Len(s) = 0 THEN ""
    ELSE LowerChar(SubSeq(s, 1, 1)) \o lower(SubSeq(s, 2, Len(s)))

\* Python `sub in s`
StrIn(sub, s) ==
    \E i \in 1..(Len(s) - Len(sub) + 1) : SubSeq(s, i, i + Len(sub) - 1) = sub

\* any(word in s for word in words)
AnyIn(words, s) == \E w \in words : StrIn(w, s)

(***************************************************************************)
(* The text returned by the chat model, as a sequence of pieces: the text  *)
(* is the pieces joined by blanks.  The parser only looks for the fence    *)
(* markers and the braces and hands the extracted text to json.loads.      *)
(***************************************************************************)
\* a TLA+ string cannot hold the backquote: ' stands for it in the two fences
FENCE_JSON == "'''json"
FENCE == "'''"
M_FEASIBILITY == "\"feasibility\": \"Maybe\""
M_CONFIDENCE == "\"confidence\": \"Low\""
M_CAVEATS_NULL == "\"important_caveats\": null"
M_FEASIBILITY_YES == "\"feasibility\": \"YES\""
M_CONFIDENCE_09 == "\"confidence\": 0.9"
M_CONFIDENCE_LIST == "\"confidence\": [\"High\"]"

SimpleMemberTokens == {M_FEASIBILITY, M_CONFIDENCE, M_CAVEATS_NULL}
MemberTokens ==
    SimpleMemberTokens \cup {M_FEASIBILITY_YES, M_CONFIDENCE_09, M_CONFIDENCE_LIST}

MemberKey(tok) ==
    CASE tok = M_FEASIBILITY -> "feasibility"
      [] tok = M_CONFIDENCE -> "confidence"
      [] tok = M_CAVEATS_NULL -> "important_caveats"
      [] tok = M_FEASIBILITY_YES -> "feasibility"
      [] tok = M_CONFIDENCE_09 -> "confidence"
      [] tok = M_CONFIDENCE_LIST -> "confidence"

MemberValue(tok) ==
    CASE tok = M_FEASIBILITY -> Str("Maybe")
      [] tok = M_CONFIDENCE -> Str("Low")
      [] tok = M_CAVEATS_NULL -> Null
      [] tok = M_FEASIBILITY_YES -> Str("YES")
      [] tok = M_CONFIDENCE_09 -> [t |-> "num", v |-> "0.9"]
      [] tok = M_CONFIDENCE_LIST -> List(<<"High">>)

TextTokens == {FENCE_JSON, FENCE, "{", "}", "Sure", "[]"} \cup SimpleMemberTokens

MaxTextLen == 4

SeqsUpTo(S, n) == UNION {[1..m -> S] : m \in 0..n}

RECURSIVE JoinWith(_, _)
JoinWith(sep, q) ==
    IF Len(q) = 0 THEN ""
    ELSE IF Len(q) = 1 THEN q[1]
    ELSE q[1] \o sep \o JoinWith(sep, Tail(q))

\* prose of exactly QuickAnswerLimit characters, and of one character more
PROSE_200 ==
    "OneFlow supports creating contracts from templates through the public API and the request can be met with the standard endpoints once an active template exists and the parties have valid email address"

PROSE_201 == PROSE_200 \o "."

\* replies longer than the quick answer may be
LongTexts ==
    {<<PROSE_200>>, <<PROSE_201>>, <<"Sure", PROSE_200>>, <<"{", PROSE_201, "}">>,
     <<FENCE_JSON, PROSE_201>>}

\* response.choices[0].message.content, or the call raising
ModelBehaviours ==
    {[kind |-> "raise", toks |-> <<>>], [kind |-> "none", toks |-> <<>>]}
    \cup {[kind |-> "text", toks |-> q] : q \in SeqsUpTo(TextTokens, MaxTextLen)}
    \cup {[kind |-> "text", toks |-> q] : q \in LongTexts}

FailingBehaviours == {b \in ModelBehaviours : b.kind # "text"}

\* 0-based str.find / str.rfind / slicing, in pieces
PyIn(sub, toks) == \E i \in 1..Len(toks) : StrIn(sub, toks[i])

PyFind(sub, toks, start) ==
    LET hits == {i \in (start + 1)..Len(toks) : StrIn(sub, toks[i])}
    IN  IF hits = {} THEN -1 ELSE (CHOOSE i \in hits : \A j \in hits : i <= j) - 1

PyRFind(sub, toks) ==
    LET hits == {i \in 1..Len(toks) : StrIn(sub, toks[i])}
    IN  IF hits = {} THEN -1 ELSE (CHOOSE i \in hits : \A j \in hits : i >= j) - 1

\* s[:-1] drops the last character of the last piece
DropLastChar(toks) ==
    IF Len(toks) = 0 THEN <<>>
    ELSE LET last == toks[Len(toks)]
             front == SubSeq(toks, 1, Len(toks) - 1)
         IN  IF Len(last) <= 1 THEN front
             ELSE front \o <<SubSeq(last, 1, Len(last) - 1)>>

\* toks[start:end_]; end_ = -1 is what find returns when there is no match
PySlice(toks, start, end_) ==
    IF end_ < 0 THEN DropLastChar(SubSeq(toks, start + 1, Len(toks)))
    ELSE SubSeq(toks, start + 1, end_)

\* json.loads: an object of members, a non-object document, or JSONDecodeError
json_loads(toks) ==
    IF toks = <<"[]">> THEN Ok(List(<<>>))
    ELSE IF /\ Len(toks) >= 2
            /\ toks[1] = "{"
            /\ toks[Len(toks)] = "}"
            /\ \A i \in 2..(Len(toks) - 1) : toks[i] \in MemberTokens
    THEN LET idx == 2..(Len(toks) - 1)
             keys == {MemberKey(toks[i]) : i \in idx}
             lastOf(k) == CHOOSE i \in idx :
                              /\ MemberKey(toks[i]) = k
                              /\ \A j \in idx : MemberKey(toks[j]) = k => j <= i
         IN  Ok([t |-> "dict", v |-> [k \in keys |-> MemberValue(toks[lastOf(k)])]])
    ELSE Raise("JSONDecodeError")

(***************************************************************************)
(* FeasibilityAnalyzer                                                     *)
(***************************************************************************)
RequiredKeys ==
    {"feasibility", "confidence", "quick_answer", "capabilities_used",
     "important_caveats", "business_impact", "related_features",
     "follow_up_questions"}

CapabilityNames ==
    <<"contract_creation", "file_management", "multi_party_contracts",
      "template_management", "webhook_integration", "contact_management",
      "contract_publishing", "data_extraction">>

SetDefault(d, k, v) == IF k \in DOMAIN d THEN d ELSE d @@ (k :> v)

RECURSIVE SetDefaults(_, _)
SetDefaults(d, defaults) ==
    IF Len(defaults) = 0 THEN d
    ELSE SetDefaults(SetDefault(d, defaults[1][1], defaults[1][2]), Tail(defaults))

SimpleDefaults_DropsLast ==
    << <<"feasibility", Str("Conditional")>>,
       <<"confidence", Str("Medium")>>,
       <<"quick_answer", Str("Technical assessment completed")>>,
       <<"capabilities_used", List(<<>>)>>,
       <<"important_caveats", List(<<>>)>>,
       <<"business_impact", Str("Standard implementation considerations apply")>>,
       <<"related_features", List(<<>>)>> >>

SimpleDefaults ==
    << <<"feasibility", Str("Conditional")>>,
       <<"confidence", Str("Medium")>>,
       <<"quick_answer", Str("Technical assessment completed")>>,
       <<"capabilities_used", List(<<>>)>>,
       <<"important_caveats", List(<<>>)>>,
       <<"business_impact", Str("Standard implementation considerations apply")>>,
       <<"related_features", List(<<>>)>>,
       <<"follow_up_questions", List(<<>>)>> >>

\* len(x)
PyLen(x) ==
    IF x.t \in {"list", "str"} THEN Ok(Len(x.v)) ELSE Raise("TypeError")

_explain_confidence(a) ==
    LET confidence == IF "confidence" \in DOMAIN a THEN a["confidence"] ELSE Str("Medium")
        caveats == IF "important_caveats" \in DOMAIN a THEN a["important_caveats"]
                   ELSE List(<<>>)
        n == PyLen(caveats)
    IN  IF n.raised THEN n
        ELSE IF confidence = Str("High")
        THEN Ok(Str("Standard OneFlow capability with well-documented implementation path"))
        ELSE IF confidence = Str("Low")
        THEN Ok(Str("Complex implementation with " \o ToString(n.value)
                    \o " important considerations"))
        ELSE Ok(Str("Feasible with " \o ToString(n.value)
                    \o " key requirements that need attention"))

_validate_and_enhance_assessment(parsed) ==
    IF parsed.t # "dict" THEN Raise("AttributeError")
    ELSE LET a == SetDefaults(parsed.v, SimpleDefaults)
             why == _explain_confidence(a)
         IN  IF why.raised THEN why
             ELSE Ok([k \in DOMAIN a \cup {"confidence_reasoning"} |->
                         IF k = "confidence_reasoning" THEN why.value ELSE a[k]])

Dict10(feas, conf, quick, caps, caveats, impact, related, follow, why) ==
    [k \in RequiredKeys \cup {"confidence_reasoning", "fallback_used"} |->
        CASE k = "feasibility" -> Str(feas)
          [] k = "confidence" -> Str(conf)
          [] k = "quick_answer" -> Str(quick)
          [] k = "capabilities_used" -> List(caps)
          [] k = "important_caveats" -> List(caveats)
          [] k = "business_impact" -> Str(impact)
          [] k = "related_features" -> List(related)
          [] k = "follow_up_questions" -> List(follow)
          [] k = "confidence_reasoning" -> Str(why)
          [] k = "fallback_used" -> Bool(TRUE)]

ContractAnswer ==
    Dict10("Yes", "High",
           "Contract creation from templates is a core OneFlow capability.",
           <<"contract_creation", "template_management">>,
           <<"Requires a valid, active template",
             "Template must be properly configured for intended use">>,
           "Standard implementation - no unusual complexity",
           <<"file_management", "multi_party_contracts">>,
           <<"What type of contract template do you need?",
             "How many parties will typically be involved?">>,
           "Core OneFlow functionality")

FileAnswer ==
    Dict10("Yes", "Medium",
           "File attachments are supported, with some configuration requirements.",
           <<"file_management">>,
           <<"Template must be configured to allow file attachments",
             "Files are added after contract creation (separate API call)",
             "File size and format restrictions apply">>,
           "May require template reconfiguration for some use cases",
           <<"contract_creation", "template_management">>,
           <<"What file types need to be supported?",
             "Who will be uploading the files?">>,
           "Requires template configuration considerations")

ClarifyAnswer ==
    Dict10("Conditional", "Low",
           "Need more specific information to assess feasibility.",
           <<>>,
           <<"Insufficient information for detailed assessment">>,
           "Cannot assess without more details",
           SubSeq(CapabilityNames, 1, 3),
           <<"Can you provide more specific details about what you need to accomplish?",
             "What is the main business process you're trying to automate?">>,
           "Need more information for accurate assessment")

ContractWords == {"create", "contract", "template"}
FileWords == {"pdf", "file", "attach", "upload"}

_create_fallback_assessment_FileFirst(q) ==
    LET question_lower == lower(q)
    IN  IF AnyIn(FileWords, question_lower) THEN FileAnswer
        ELSE IF AnyIn(ContractWords, question_lower) THEN ContractAnswer
        ELSE ClarifyAnswer

_create_fallback_assessment(q) ==
    LET question_lower == lower(q)
    IN  IF AnyIn(ContractWords, question_lower) THEN ContractAnswer
        ELSE IF AnyIn(FileWords, question_lower) THEN FileAnswer
        ELSE ClarifyAnswer

QuickAnswerLimit == 200

_create_fallback_from_text_NoTruncation(content) ==
    IF content.kind = "none" THEN Raise("TypeError")
    ELSE Ok(Dict10("Conditional", "Medium", JoinWith(" ", content.toks), <<>>,
                   <<"Assessment based on unstructured analysis">>,
                   "Manual review recommended", <<>>,
                   <<"Please rephrase your question for more accurate assessment">>,
                   "Unstructured response format"))

\* content is [kind |-> "none"] for None, else [kind |-> "text", toks |-> ...]
_create_fallback_from_text(content) ==
    IF content.kind = "none" THEN Raise("TypeError")
    ELSE LET response_text == JoinWith(" ", content.toks)
             quick == IF Len(response_text) > QuickAnswerLimit
                      THEN SubSeq(response_text, 1, QuickAnswerLimit) \o "..."
                      ELSE response_text
         IN  Ok(Dict10("Conditional", "Medium", quick, <<>>,
                       <<"Assessment based on unstructured analysis">>,
                       "Manual review recommended", <<>>,
                       <<"Please rephrase your question for more accurate assessment">>,
                       "Unstructured response format"))

\* the try block of _parse_openai_response
ParseTry(content) ==
    IF content.kind = "none" THEN Raise("TypeError")
    ELSE LET toks == content.toks
         IN  IF PyIn(FENCE_JSON, toks)
             THEN LET start == PyFind(FENCE_JSON, toks, 0) + 1
                      end_ == PyFind(FENCE, toks, start)
                      parsed == json_loads(PySlice(toks, start, end_))
                  IN  IF parsed.raised THEN parsed
                      ELSE _validate_and_enhance_assessment(parsed.value)
             ELSE IF PyIn("{", toks) /\ PyIn("}", toks)
             THEN LET start == PyFind("{", toks, 0)
                      end_ == PyRFind("}", toks) + 1
                      parsed == json_loads(PySlice(toks, start, end_))
                  IN  IF parsed.raised THEN parsed
                      ELSE _validate_and_enhance_assessment(parsed.value)
             ELSE _create_fallback_from_text(content)

_parse_openai_response(content) ==
    LET r == ParseTry(content)
    IN  IF r.raised THEN _create_fallback_from_text(content) ELSE r

assess_feasibility(q, reply) ==
    IF reply.kind = "raise" THEN _create_fallback_assessment(q)
    ELSE LET r == _parse_openai_response(reply)
         IN  IF r.raised THEN _create_fallback_assessment(q) ELSE r.value

(***************************************************************************)
(* Questions                                                               *)
(***************************************************************************)
Q_Scenario == "Can we create a contract from a template and add a PDF to it?"

Vocabulary ==
    {"Create", "contract", "TEMPLATE", "PDF", "attachment", "upload", "profile", "price"}

MaxWords == 2

Phrases == {JoinWith(" ", q) : q \in SeqsUpTo(Vocabulary, MaxWords)}

FallbackQuestions == Phrases \cup {Q_Scenario, "   "}

ScenarioQuestions == {Q_Scenario, "Can I upload a file?", "What does it cost?"}

AssessFeasibility ==
    /\ simple_pc = "ready"
    /\ assessment' = assess_feasibility(sales_question, model_reply)
    /\ simple_pc' = "done"
    /\ UNCHANGED <<sales_question, model_reply>>
    /\ UNCHANGED exceptSimple

InitSimple ==
    /\ sales_question \in ScenarioQuestions
    /\ model_reply \in ModelBehaviours
    /\ assessment = NoValue
    /\ simple_pc = "ready"

InitFallback ==
    /\ sales_question \in FallbackQuestions
    /\ model_reply \in FailingBehaviours
    /\ assessment = NoValue
    /\ simple_pc = "ready"

NextSimple == AssessFeasibility

Feasibility(a) == a["feasibility"].v
Confidence(a) == a["confidence"].v
InList(x, l) == \E i \in 1..Len(l.v) : l.v[i] = x

\* C1: whatever the model call does, the mapping returned by assess_feasibility
\* holds all eight required keys.
C1_AllRequiredKeys ==
    simple_pc = "done" => RequiredKeys \subseteq DOMAIN assessment

\* a reply whose JSON object lacked quick_answer was completed with the default
C1_Witness ==
    /\ simple_pc = "done"
    /\ model_reply.kind = "text"
    /\ "fallback_used" \notin DOMAIN assessment
    /\ assessment["quick_answer"] = Str("Technical assessment completed")
    /\ assessment["feasibility"] = Str("Maybe")

\* the model's text holds no JSON object: no run of its pieces is one
NoJsonObject(toks) ==
    \A i \in 1..Len(toks) : \A j \in i..Len(toks) :
        LET parsed == json_loads(SubSeq(toks, i, j))
        IN  parsed.raised \/ parsed.value.t # "dict"

ModelText == JoinWith(" ", model_reply.toks)

\* C25: when the model call returns a text that holds no parsable JSON
\* object, the assessment is the text fallback: feasibility Conditional,
\* confidence Medium, fallback_used true, and as quick_answer the text
\* itself when it has at most 200 characters, else its first 200
\* characters followed by "...".
C25_TextFallback ==
    simple_pc = "done" /\ model_reply.kind = "text" /\ NoJsonObject(model_reply.toks) =>
        /\ assessment["feasibility"] = Str("Conditional")
        /\ assessment["confidence"] = Str("Medium")
        /\ assessment["fallback_used"] = Bool(TRUE)
        /\ Len(ModelText) <= 200 => assessment["quick_answer"] = Str(ModelText)
        /\ Len(ModelText) > 200 =>
              /\ assessment["quick_answer"] = Str(SubSeq(ModelText, 1, 200) \o "...")
              /\ Len(assessment["quick_answer"].v) = 203

\* a text of 203 characters between braces is not JSON and was cut to 200
C25_Witness ==
    /\ simple_pc = "done"
    /\ model_reply = [kind |-> "text", toks |-> <<"{", PROSE_201, "}">>]
    /\ Len(assessment["quick_answer"].v) = 203
    /\ assessment["fallback_used"] = Bool(TRUE)

\* C17 as stated: every assessment of the simple engine has feasibility Yes,
\* No or Conditional and confidence High, Medium or Low, whatever the
\* model's JSON held.
C17_Original ==
    simple_pc = "done" =>
        /\ assessment["feasibility"] \in {Str("Yes"), Str("No"), Str("Conditional")}
        /\ assessment["confidence"] \in {Str("High"), Str("Medium"), Str("Low")}

\* the model's JSON object said "feasibility": "Maybe" and the assessment
\* made from it (no fallback) says the same
C17_Witness ==
    /\ simple_pc = "done"
    /\ model_reply.kind = "text"
    /\ \E i \in 1..Len(model_reply.toks) : model_reply.toks[i] = M_FEASIBILITY
    /\ "fallback_used" \notin DOMAIN assessment
    /\ "confidence_reasoning" \in DOMAIN assessment
    /\ assessment["feasibility"] = Str("Maybe")
    /\ assessment["confidence"] \in {Str("High"), Str("Medium"), Str("Low")}

MentionsContract(q) == AnyIn({"create", "contract", "template"}, lower(q))
MentionsFile(q) == AnyIn({"pdf", "file", "attach", "upload"}, lower(q))

\* C4: when the model call fails the answer is picked by three tiers in order:
\* contract/template keyword -> Yes/High, else file keyword -> Yes/Medium,
\* else Conditional/Low; a question matching both gets the first tier.
C4_FallbackTiers ==
    simple_pc = "done" =>
        /\ MentionsContract(sales_question) =>
              Feasibility(assessment) = "Yes" /\ Confidence(assessment) = "High"
        /\ ~MentionsContract(sales_question) /\ MentionsFile(sales_question) =>
              Feasibility(assessment) = "Yes" /\ Confidence(assessment) = "Medium"
        /\ ~MentionsContract(sales_question) /\ ~MentionsFile(sales_question) =>
              Feasibility(assessment) = "Conditional" /\ Confidence(assessment) = "Low"

C4_Witness ==
    /\ simple_pc = "done"
    /\ sales_question = "contract PDF"
    /\ Confidence(assessment) = "High"

\* C5 as stated: a question about contract creation and a PDF attachment gets
\* Yes / Medium with file_management among capabilities_used.
C5_Original ==
    simple_pc = "done" /\ MentionsContract(sales_question) /\ MentionsFile(sales_question) =>
        /\ Feasibility(assessment) = "Yes"
        /\ Confidence(assessment) = "Medium"
        /\ InList("file_management", assessment["capabilities_used"])

\* C5 amended: such a question gets the first tier: Yes / High with
\* capabilities_used = [contract_creation, template_management];
\* file_management is listed under related_features only.
C5_ContractTierWins ==
    simple_pc = "done" /\ MentionsContract(sales_question) /\ MentionsFile(sales_question) =>
        /\ Feasibility(assessment) = "Yes"
        /\ Confidence(assessment) = "High"
        /\ assessment["capabilities_used"].v = <<"contract_creation", "template_management">>
        /\ InList("file_management", assessment["related_features"])

C5_Witness ==
    /\ simple_pc = "done"
    /\ sales_question = Q_Scenario
    /\ assessment["fallback_used"] = Bool(TRUE)

(***************************************************************************)
(* APIDocsProcessor                                                        *)
(***************************************************************************)
NoFile == [t |-> "nofile"]

UpperChar(c) ==
    CASE c = "a" -> "A" [] c = "b" -> "B" [] c = "c" -> "C" [] c = "d" -> "D"
      [] c = "e" -> "E" [] c = "f" -> "F" [] c = "g" -> "G" [] c = "h" -> "H"
      [] c = "i" -> "I" [] c = "j" -> "J" [] c = "k" -> "K" [] c = "l" -> "L"
      [] c = "m" -> "M" [] c = "n" -> "N" [] c = "o" -> "O" [] c = "p" -> "P"
      [] c = "q" -> "Q" [] c = "r" -> "R" [] c = "s" -> "S" [] c = "t" -> "T"
      [] c = "u" -> "U" [] c = "v" -> "V" [] c = "w" -> "W" [] c = "x" -> "X"
      [] c = "y" -> "Y" [] c = "z" -> "Z" [] OTHER -> c

RECURSIVE upper(_)
upper(s) ==
    IF Len(s) = 0 THEN ""
    ELSE UpperChar(SubSeq(s, 1, 1)) \o upper(SubSeq(s, 2, Len(s)))

\* Texts the specification URL may serve.  yaml.safe_load gives a mapping for
\* the first four, None for the empty text and raises on the last.
YAML_A == "openapi: 3.0.0 # contracts"
YAML_B == "openapi: 3.0.0 # contracts, templates"
YAML_DATE_KEY == "openapi: 3.0.0 # contracts, schemas: {2024-01-15: ...}"
YAML_BAD_PATHS == "paths: [not, a, mapping]"
YAML_EMPTY == ""
YAML_INVALID == "paths: {unclosed"

UpstreamTexts == {YAML_A, YAML_B, YAML_DATE_KEY, YAML_BAD_PATHS, YAML_EMPTY, YAML_INVALID}

\* a dict key as YAML reads it: an int (200), a str ('default') or a
\* datetime.date (2024-01-15)
IntKey(s) == <<"int", s>>
StrKey(s) == <<"str", s>>
DateKey(s) == <<"date", s>>

\* a YAML timestamp, read as a datetime.date
Date(iso) == [t |-> "date", v |-> iso]

Operation(path, method, summary, tags, responses) ==
    [path |-> path, method |-> method, summary |-> summary, tags |-> tags,
     responses |-> responses]

SpecA ==
    [t |-> "dict", version |-> "1.0", title |-> "OneFlow Public API", schemas |-> <<>>,
     paths |-> [t |-> "dict", ops |->
        << Operation("/contracts/create", "post", "Create a contract", <<"Contracts">>,
                     IntKey("200") :> "OK" @@ StrKey("default") :> "Error"),
           Operation("/contracts/create", "parameters", "", <<>>, <<>>) >>]]

SpecB ==
    [t |-> "dict", version |-> "1.1", title |-> "OneFlow Public API",
     schemas |-> StrKey("Contract") :> Str("object")
                 @@ StrKey("released") :> Date("2024-01-15"),
     paths |-> [t |-> "dict", ops |->
        << Operation("/contracts/create", "post", "Create a contract", <<"Contracts">>,
                     IntKey("200") :> "OK"),
           Operation("/templates", "get", "List templates", <<"Templates">>,
                     StrKey("200") :> "OK") >>]]

SpecDateKey ==
    [t |-> "dict", version |-> "1.2", title |-> "OneFlow Public API",
     schemas |-> StrKey("Contract") :> Str("object")
                 @@ DateKey("2024-01-15") :> Str("object"),
     paths |-> [t |-> "dict", ops |->
        << Operation("/contracts/create", "post", "Create a contract", <<"Contracts">>,
                     StrKey("200") :> "OK") >>]]

SpecBadPaths ==
    [t |-> "dict", version |-> "1.0", title |-> "OneFlow Public API", schemas |-> <<>>,
     paths |-> [t |-> "list", ops |-> <<>>]]

yaml_safe_load(text) ==
    CASE text = YAML_A -> Ok(SpecA)
      [] text = YAML_B -> Ok(SpecB)
      [] text = YAML_DATE_KEY -> Ok(SpecDateKey)
      [] text = YAML_BAD_PATHS -> Ok(SpecBadPaths)
      [] text = YAML_EMPTY -> Ok(NoValue)
      [] OTHER -> Raise("YAMLError")

HttpMethods == {"GET", "POST", "PUT", "DELETE", "PATCH"}

\* any(word in tag.lower() for tag in tags)
AnyTag(word, tags) == \E i \in 1..Len(tags) : StrIn(word, lower(tags[i]))

PathCategory(path) ==
    IF StrIn("parties", path) \/ StrIn("participants", path) THEN "contract_parties"
    ELSE IF StrIn("files", path) THEN "file_management"
    ELSE IF StrIn("publish", path) THEN "contract_publishing"
    ELSE "contract_management"

_categorize_endpoint_PathFirst(path, tags) ==
    IF StrIn("parties", path) THEN "contract_parties"
    ELSE IF AnyTag("account", tags) THEN "authentication_setup"
    ELSE IF AnyTag("user", tags) THEN "user_management"
    ELSE IF AnyTag("template", tags) THEN "template_management"
    ELSE IF AnyTag("contact", tags) THEN "contact_management"
    ELSE IF AnyTag("contract", tags) THEN PathCategory(path)
    ELSE IF AnyTag("webhook", tags) THEN "integration_automation"
    ELSE "general"

\* tags: method_info.get('tags', [])
_categorize_endpoint(path, tags) ==
    IF AnyTag("account", tags) THEN "authentication_setup"
    ELSE IF AnyTag("user", tags) THEN "user_management"
    ELSE IF AnyTag("template", tags) THEN "template_management"
    ELSE IF AnyTag("contact", tags) THEN "contact_management"
    ELSE IF AnyTag("contract", tags) THEN PathCategory(path)
    ELSE IF AnyTag("webhook", tags) THEN "integration_automation"
    ELSE "general"

\* method: the key under the path as the specification writes it
_identify_prerequisites(path, method) ==
    (IF StrIn("/contracts/create", path) THEN <<"GET /templates", "GET /accounts/me">>
     ELSE <<>>)
    \o (IF StrIn("/parties", path) /\ method = "POST" THEN <<"POST /contracts/create">>
        ELSE <<>>)
    \o (IF StrIn("/participants", path) /\ method = "POST"
        THEN <<"POST /contracts/create", "POST /contracts/{id}/parties">>
        ELSE <<>>)

_identify_follow_ups(path, method) ==
    (IF StrIn("/contracts/create", path)
     THEN <<"POST /contracts/{id}/parties", "POST /contracts/{id}/files",
            "POST /contracts/{id}/publish">>
     ELSE <<>>)
    \o (IF StrIn("/parties", path) /\ method = "POST"
        THEN <<"POST /contracts/{id}/parties/{party_id}/participants",
               "POST /contracts/{id}/publish">>
        ELSE <<>>)

_extract_endpoints(api_spec) ==
    IF api_spec.paths.t # "dict" THEN Raise("AttributeError")
    ELSE LET ops == api_spec.paths.ops
             kept == {i \in 1..Len(ops) : upper(ops[i].method) \in HttpMethods}
             key(i) == upper(ops[i].method) \o " " \o ops[i].path
             lastOf(k) == CHOOSE i \in kept :
                              key(i) = k /\ \A j \in kept : key(j) = k => j <= i
         IN  Ok([k \in {key(i) : i \in kept} |->
                    [path |-> ops[lastOf(k)].path,
                     method |-> upper(ops[lastOf(k)].method),
                     summary |-> ops[lastOf(k)].summary,
                     tags |-> ops[lastOf(k)].tags,
                     responses |-> ops[lastOf(k)].responses,
                     workflow_category |->
                         _categorize_endpoint(ops[lastOf(k)].path, ops[lastOf(k)].tags),
                     prerequisites |->
                         _identify_prerequisites(ops[lastOf(k)].path, ops[lastOf(k)].method),
                     follow_ups |->
                         _identify_follow_ups(ops[lastOf(k)].path, ops[lastOf(k)].method)]])

\* metadata.created_at (the wall clock) is left out of the knowledge base
_define_workflows == <<"basic_contract_creation", "contact_management", "webhook_integration">>

_get_fallback_knowledge_base ==
    [t |-> "dict",
     metadata |-> [api_version |-> "fallback", title |-> "OneFlow API (Fallback)"],
     endpoints |-> ("GET /accounts/me" :>
                      [path |-> "/accounts/me", method |-> "GET",
                       summary |-> "Get account information",
                       workflow_category |-> "authentication_setup"]),
     workflows |-> _define_workflows,
     schemas |-> <<>>]

\* json.dump(..., default=str) followed by what json.load reads back: the
\* keys of every mapping become strings.
JsonKey(k) == StrKey(k[2])

JsonObject(d) ==
    LET lastOf(k2) == CHOOSE k \in DOMAIN d : JsonKey(k) = k2
    IN  [k2 \in {JsonKey(k) : k \in DOMAIN d} |-> d[lastOf(k2)]]

\* default=str: called for a value json cannot encode
JsonDefault(v) == IF v.t = "date" THEN Str(v.v) ELSE v

json_dump(kb) ==
    [kind |-> "json",
     doc |-> [t |-> "dict",
              metadata |-> kb.metadata,
              endpoints |-> [k \in DOMAIN kb.endpoints |->
                  [kb.endpoints[k] EXCEPT !.responses = JsonObject(@)]],
              workflows |-> kb.workflows,
              schemas |-> [k \in DOMAIN JsonObject(kb.schemas) |->
                              JsonDefault(JsonObject(kb.schemas)[k])]]]

\* json.dump raises TypeError for a mapping key that is not a str, int,
\* float, bool or None; default=str is not called for keys
JsonKeysEncodable(d) == \A k \in DOMAIN d : k[1] \in {"int", "str"}

json_dump_raises(kb) ==
    \/ ~JsonKeysEncodable(kb.schemas)
    \/ \E k \in DOMAIN kb.endpoints : ~JsonKeysEncodable(kb.endpoints[k].responses)

\* what open(..., 'w') and a json.dump that raised leave in the file: the
\* beginning of the document
TRUNCATED == [kind |-> "truncated", doc |-> NoValue]

\* what the knowledge-base file holds when it is not what json_dump wrote
GARBAGE == [kind |-> "garbage", doc |-> NoValue]
JSON_LIST == [kind |-> "json", doc |-> List(<<>>)]

json_load(text) ==
    IF text.kind = "json" THEN Ok(text.doc) ELSE Raise("JSONDecodeError")

CacheRefreshHours == 24

_should_refresh_cache_AtThreshold(kbf) ==
    IF kbf = NoFile THEN TRUE ELSE kbf.age >= CacheRefreshHours

_should_refresh_cache(kbf) ==
    IF kbf = NoFile THEN TRUE ELSE kbf.age > CacheRefreshHours

LoadCachedSpec(specf) ==
    IF specf = NoFile THEN NoValue
    ELSE LET cached == yaml_safe_load(specf.text)
         IN  IF cached.raised THEN NoValue ELSE cached.value

\* net_up: requests.get and raise_for_status succeed, delivering `served`
_get_api_specification(net_up, served, specf) ==
    IF net_up
    THEN LET saved == [t |-> "file", text |-> served]
             parsed == yaml_safe_load(served)
         IN  [api_spec |-> IF parsed.raised THEN LoadCachedSpec(saved) ELSE parsed.value,
              spec_file |-> saved, requests |-> 1]
    ELSE [api_spec |-> LoadCachedSpec(specf), spec_file |-> specf, requests |-> 1]

BuildKnowledgeBase(api_spec, endpoints) ==
    [t |-> "dict",
     metadata |-> [api_version |-> api_spec.version, title |-> api_spec.title],
     endpoints |-> endpoints,
     workflows |-> _define_workflows,
     schemas |-> api_spec.schemas]

_create_knowledge_base(net_up, served, kbf, specf) ==
    LET got == _get_api_specification(net_up, served, specf)
        failed == [knowledge_base |-> _get_fallback_knowledge_base,
                   kb_file |-> kbf, spec_file |-> got.spec_file, created |-> TRUE,
                   written |-> FALSE, requests |-> got.requests]
    IN  IF got.api_spec.t = "none" THEN failed
        ELSE LET e == _extract_endpoints(got.api_spec)
             IN  IF e.raised THEN failed
                 ELSE LET kb == BuildKnowledgeBase(got.api_spec, e.value)
                      IN  IF json_dump_raises(kb)
                          THEN [failed EXCEPT
                                   !.kb_file = [t |-> "file", text |-> TRUNCATED, age |-> 0]]
                          ELSE [knowledge_base |-> kb,
                                kb_file |-> [t |-> "file", text |-> json_dump(kb), age |-> 0],
                                spec_file |-> got.spec_file, created |-> TRUE,
                                written |-> TRUE, requests |-> got.requests]

\* the load fails: json.load raises, or data.get raises on a non-object
LoadFails(kbf) ==
    LET data == json_load(kbf.text)
    IN  data.raised \/ data.value.t # "dict"

_load_or_create_knowledge_base_KeepsFile(net_up, served, kbf, specf) ==
    IF _should_refresh_cache(kbf) THEN _create_knowledge_base(net_up, served, kbf, specf)
    ELSE IF LoadFails(kbf) THEN _create_knowledge_base(net_up, served, kbf, specf)
    ELSE [knowledge_base |-> json_load(kbf.text).value, kb_file |-> kbf,
          spec_file |-> specf, created |-> FALSE, written |-> FALSE, requests |-> 0]

_load_or_create_knowledge_base(net_up, served, kbf, specf) ==
    IF _should_refresh_cache(kbf) THEN _create_knowledge_base(net_up, served, kbf, specf)
    ELSE IF LoadFails(kbf) THEN _create_knowledge_base(net_up, served, NoFile, specf)
    ELSE [knowledge_base |-> json_load(kbf.text).value, kb_file |-> kbf,
          spec_file |-> specf, created |-> FALSE, written |-> FALSE, requests |-> 0]

refresh_cache_UnlessFresh(net_up, served, kbf, specf) ==
    _load_or_create_knowledge_base(net_up, served, kbf, specf)

refresh_cache(net_up, served, kbf, specf) ==
    _create_knowledge_base(net_up, served, NoFile, NoFile)

NoTrace == [op |-> "none"]

\* len(knowledge_base['endpoints'])
EndpointCount(kb) == Cardinality(DOMAIN kb.endpoints)

\* previous: the refresh_cache call this refresh_cache call follows, if any
Trace(op, net_up, r) ==
    [op |-> op, net_up |-> net_up, served |-> upstream,
     previous |-> IF op = "refresh" /\ kb_trace.op = "refresh"
                  THEN [op |-> "refresh", net_up |-> kb_trace.net_up,
                        served |-> kb_trace.served,
                        endpoints |-> EndpointCount(knowledge_base)]
                  ELSE NoTrace,
     created |-> r.created, written |-> r.written, requests |-> r.requests,
     kb_before |-> kb_file, spec_before |-> spec_file,
     kb_after |-> r.kb_file, spec_after |-> r.spec_file]

Apply(op, net_up, r) ==
    /\ knowledge_base' = r.knowledge_base
    /\ kb_file' = r.kb_file
    /\ spec_file' = r.spec_file
    /\ kb_trace' = Trace(op, net_up, r)
    /\ last_download' = IF r.created /\ net_up THEN [t |-> "text", text |-> upstream]
                        ELSE last_download
    /\ UNCHANGED upstream
    /\ UNCHANGED exceptKB

\* APIDocsProcessor() is constructed (the application starts)
Initialize ==
    /\ upstream \in UpstreamTexts
    /\ \E net_up \in BOOLEAN :
          LET r == _load_or_create_knowledge_base(net_up, upstream, kb_file, spec_file)
          IN  Apply("init", net_up, r)

RefreshCache ==
    /\ knowledge_base # NoValue
    /\ \E net_up \in BOOLEAN :
          Apply("refresh", net_up, refresh_cache(net_up, upstream, kb_file, spec_file))

\* the clock advances in steps of half the threshold, MaxTicks times at most
TickHours == CacheRefreshHours \div 2
MaxTicks == 3

\* time passes: the knowledge-base file gets older
TimePasses ==
    /\ kb_file # NoFile
    /\ kb_file.age + TickHours <= MaxTicks * TickHours
    /\ kb_file' = [kb_file EXCEPT !.age = @ + TickHours]
    /\ UNCHANGED <<upstream, spec_file, knowledge_base, kb_trace, last_download>>
    /\ UNCHANGED exceptKB

\* the publisher changes the specification
UpstreamChanges ==
    /\ upstream' \in UpstreamTexts \ {upstream}
    /\ UNCHANGED <<spec_file, kb_file, knowledge_base, kb_trace, last_download>>
    /\ UNCHANGED exceptKB

\* the knowledge-base file is damaged or overwritten outside the processor
CorruptKBFile ==
    /\ kb_file # NoFile
    /\ kb_file.text \notin {GARBAGE, JSON_LIST}
    /\ \E bad \in {GARBAGE, JSON_LIST}, age \in {0, kb_file.age} :
          kb_file' = [kb_file EXCEPT !.text = bad, !.age = age]
    /\ UNCHANGED <<upstream, spec_file, knowledge_base, kb_trace, last_download>>
    /\ UNCHANGED exceptKB

InitKB ==
    /\ upstream \in UpstreamTexts
    /\ spec_file = NoFile
    /\ kb_file = NoFile
    /\ knowledge_base = NoValue
    /\ kb_trace = NoTrace
    /\ last_download = NoValue

IdleKB ==
    /\ upstream = YAML_A
    /\ spec_file = NoFile
    /\ kb_file = NoFile
    /\ knowledge_base = NoValue
    /\ kb_trace = NoTrace
    /\ last_download = NoValue

IdleLoader ==
    /\ folder = [t |-> "nofolder"]
    /\ documents = NoValue

IdleHybrid ==
    /\ vector_stores = NoValue
    /\ hybrid_trace = [op |-> "none"]

IdleResponse ==
    /\ response_request = NoValue
    /\ response = NoValue

IdleManager ==
    /\ manager_call = NoValue
    /\ manager_result = NoValue

IdleSeed ==
    /\ seed_spec = NoValue
    /\ seed_kb = NoValue
    /\ seed_stores = NoValue

IdleUI ==
    /\ conversation_history = <<>>
    /\ assessment_count = 0
    /\ ui_trace = [op |-> "none"]

IdleSimple ==
    /\ sales_question = ""
    /\ model_reply = [kind |-> "raise", toks |-> <<>>]
    /\ assessment = NoValue
    /\ simple_pc = "idle"

NextKB ==
    \/ Initialize
    \/ RefreshCache
    \/ TimePasses
    \/ UpstreamChanges
    \/ CorruptKBFile

Usable(text) ==
    LET parsed == yaml_safe_load(text)
    IN  /\ ~parsed.raised
        /\ parsed.value.t = "dict"
        /\ ~_extract_endpoints(parsed.value).raised

DerivedKB(text) ==
    LET api_spec == yaml_safe_load(text).value
    IN  BuildKnowledgeBase(api_spec, _extract_endpoints(api_spec).value)

IsMinimalKB(kb) == DOMAIN kb.endpoints = {"GET /accounts/me"} /\ kb.metadata.api_version = "fallback"

\* C6 as stated: whenever a build's download fails and an earlier download
\* succeeded (delivering a usable specification), the knowledge base is
\* derived from that cached copy.
C6_Original ==
    /\ kb_trace.op \in {"init", "refresh"}
    /\ kb_trace.created
    /\ ~kb_trace.net_up
    /\ last_download.t = "text"
    /\ Usable(last_download.text)
    => knowledge_base = DerivedKB(last_download.text)

\* the failing run: a download succeeded, then refresh_cache ran with the
\* network down and left the minimal knowledge base
C6_Witness ==
    /\ kb_trace.op = "refresh"
    /\ ~kb_trace.net_up
    /\ kb_trace.spec_before # NoFile
    /\ Usable(kb_trace.spec_before.text)
    /\ kb_trace.spec_after = NoFile
    /\ IsMinimalKB(knowledge_base)

FreshGarbage(f) == f # NoFile /\ f.age <= CacheRefreshHours /\ f.text = GARBAGE

\* C7: a knowledge-base file that exists, is not older than the threshold and
\* holds invalid JSON is deleted and the knowledge base is regenerated through
\* the specification fetch path; the file's content is never returned.
C7_CorruptFileRegenerated ==
    kb_trace.op = "init" /\ FreshGarbage(kb_trace.kb_before) =>
        /\ kb_trace.created
        /\ kb_trace.requests = 1
        /\ kb_trace.net_up => kb_trace.spec_after = [t |-> "file", text |-> kb_trace.served]
        /\ \/ kb_trace.kb_after = NoFile /\ IsMinimalKB(knowledge_base)
           \/ /\ kb_trace.kb_after = [t |-> "file", text |-> TRUNCATED, age |-> 0]
              /\ IsMinimalKB(knowledge_base)
           \/ /\ kb_trace.kb_after # NoFile
              /\ ~IsMinimalKB(knowledge_base)
              /\ kb_trace.kb_after = [t |-> "file", text |-> json_dump(knowledge_base), age |-> 0]

C7_Witness ==
    /\ kb_trace.op = "init"
    /\ FreshGarbage(kb_trace.kb_before)
    /\ kb_trace.kb_after # NoFile

\* C8 as stated: at initialization the knowledge base is recomputed if and
\* only if no file exists or its age is greater than cache_refresh_hours.
C8_Original ==
    kb_trace.op = "init" =>
        (kb_trace.created <=>
            \/ kb_trace.kb_before = NoFile
            \/ kb_trace.kb_before.age > CacheRefreshHours)

\* C8 amended: it is recomputed if and only if no file exists, or its age is
\* greater than cache_refresh_hours, or the file cannot be loaded as a JSON
\* object; otherwise the cached knowledge base is returned, nothing is
\* downloaded and both files are left as they were.
C8_RefreshPolicy ==
    kb_trace.op = "init" =>
        /\ kb_trace.created <=>
              \/ kb_trace.kb_before = NoFile
              \/ kb_trace.kb_before.age > CacheRefreshHours
              \/ kb_trace.kb_before.text \in {GARBAGE, JSON_LIST, TRUNCATED}
        /\ ~kb_trace.created =>
              /\ knowledge_base = kb_trace.kb_before.text.doc
              /\ kb_trace.requests = 0
              /\ kb_trace.kb_after = kb_trace.kb_before
              /\ kb_trace.spec_after = kb_trace.spec_before

C8_Witness ==
    /\ kb_trace.op = "init"
    /\ kb_trace.kb_before # NoFile
    /\ kb_trace.kb_before.age = CacheRefreshHours
    /\ ~kb_trace.created
    /\ kb_trace.requests = 0

\* the knowledge base a start of the application reads from the file the
\* last call wrote, while that file is fresh and untouched
LoadedBack == _load_or_create_knowledge_base(FALSE, upstream, kb_file, spec_file)

JustWritten ==
    /\ kb_trace.op # "none"
    /\ kb_trace.written
    /\ kb_file = kb_trace.kb_after

\* C14 as stated: the knowledge base _create_knowledge_base wrote to the
\* file, loaded back by _load_or_create_knowledge_base, equals the one it
\* returned (the timestamp aside): same keys, same key types, same values.
C14_Original ==
    JustWritten =>
        /\ ~LoadedBack.created
        /\ LoadedBack.knowledge_base = knowledge_base

\* a written knowledge base holds a response map keyed by the number 200;
\* the file gives that key back as the string "200"
C14_Witness ==
    /\ JustWritten
    /\ ~LoadedBack.created
    /\ \E k \in DOMAIN knowledge_base.endpoints :
          /\ IntKey("200") \in DOMAIN knowledge_base.endpoints[k].responses
          /\ DOMAIN LoadedBack.knowledge_base.endpoints[k].responses
                = {JsonKey(r) : r \in DOMAIN knowledge_base.endpoints[k].responses}
          /\ IntKey("200") \notin DOMAIN LoadedBack.knowledge_base.endpoints[k].responses
    /\ LoadedBack.knowledge_base.metadata = knowledge_base.metadata
    /\ LoadedBack.knowledge_base.workflows = knowledge_base.workflows

\* the knowledge-base file holds what json_dump wrote for the knowledge base
\* derived from one of the specifications
HoldsDerivedKB(f) ==
    \E text \in UpstreamTexts : Usable(text) /\ f.text = json_dump(DerivedKB(text))

\* the last call built the knowledge base and the build failed
BuildFailed ==
    /\ kb_trace.op \in {"init", "refresh"}
    /\ kb_trace.created
    /\ ~kb_trace.written

\* the next APIDocsProcessor() requests the specification, whether or not
\* the network is up
NextInitializationFetches ==
    \A net_up \in BOOLEAN :
        _load_or_create_knowledge_base(net_up, upstream, kb_file, spec_file).requests = 1

\* C29 (as stated): the minimal fallback knowledge base is never written to
\* the knowledge-base file; unless it was damaged from outside, the file
\* either does not exist or holds a knowledge base derived from a
\* specification, and after a failed build the next initialization
\* requests the specification again.
C29_Original ==
    /\ \/ kb_file = NoFile
       \/ kb_file.text \in {GARBAGE, JSON_LIST}
       \/ HoldsDerivedKB(kb_file)
    /\ BuildFailed => NextInitializationFetches

\* the specification was downloaded and parsed, and it has a schema whose
\* key is a date: json.dump raised after open() had emptied the file, the
\* minimal knowledge base was returned and the file holds the beginning of
\* a document
C29_Witness ==
    /\ BuildFailed
    /\ kb_trace.net_up
    /\ kb_trace.served = YAML_DATE_KEY
    /\ IsMinimalKB(knowledge_base)
    /\ kb_file = [t |-> "file", text |-> TRUNCATED, age |-> 0]
    /\ ~HoldsDerivedKB(kb_file)

\* what does hold: the file never holds the minimal knowledge base, and
\* after a failed build the next initialization requests the specification
FallbackNeverCached ==
    /\ kb_file # NoFile /\ kb_file.text.kind = "json" /\ kb_file.text.doc.t = "dict"
          => ~IsMinimalKB(kb_file.text.doc)
    /\ BuildFailed => NextInitializationFetches

\* refresh_cache was called twice in succession and the URL served the same
\* specification to both calls
RefreshedTwice ==
    /\ kb_trace.op = "refresh"
    /\ kb_trace.previous.op = "refresh"
    /\ kb_trace.previous.served = kb_trace.served

NoFolder == [t |-> "nofolder"]

\* str.endswith(suffix, start): the second positional argument is the start
\* of the slice that is tested, and must be an integer or None
endswith(s, suffix, start) ==
    IF start.t \notin {"int", "none"}
    THEN Raise("slice indices must be integers or None or have an __index__ method")
    ELSE LET from == IF start.t = "none" THEN 0 ELSE start.v
             rest == SubSeq(s, from + 1, Len(s))
         IN  Ok(/\ Len(rest) >= Len(suffix)
                /\ SubSeq(rest, Len(rest) - Len(suffix) + 1, Len(rest)) = suffix)

RECURSIVE lstrip(_)
lstrip(s) ==
    IF Len(s) > 0 /\ SubSeq(s, 1, 1) = " " THEN lstrip(SubSeq(s, 2, Len(s))) ELSE s

RECURSIVE rstrip(_)
rstrip(s) ==
    IF Len(s) > 0 /\ SubSeq(s, Len(s), Len(s)) = " "
    THEN rstrip(SubSeq(s, 1, Len(s) - 1)) ELSE s

strip(s) == rstrip(lstrip(s))

IsCased(c) == LowerChar(c) # c \/ UpperChar(c) # c

\* str.title(): a cased character is upper-cased after an uncased one (or at
\* the start) and lower-cased after a cased one
RECURSIVE TitleFrom(_, _)
TitleFrom(s, afterCased) ==
    IF Len(s) = 0 THEN ""
    ELSE LET c == SubSeq(s, 1, 1)
         IN  (IF afterCased THEN LowerChar(c) ELSE UpperChar(c))
             \o TitleFrom(SubSeq(s, 2, Len(s)), IsCased(c))

RECURSIVE replace(_, _, _)
replace(s, old, new) ==
    IF Len(s) = 0 THEN ""
    ELSE (IF SubSeq(s, 1, 1) = old THEN new ELSE SubSeq(s, 1, 1))
         \o replace(SubSeq(s, 2, Len(s)), old, new)

\* os.path.splitext(filename)[0]
splitext_root(name) ==
    LET dots == {i \in 2..Len(name) : SubSeq(name, i, i) = "."}
    IN  IF dots = {} THEN name
        ELSE SubSeq(name, 1, (CHOOSE i \in dots : \A j \in dots : j <= i) - 1)

load_text_file(f) == f.text

\* the paragraphs of the document; "" when python-docx is missing or fails
load_docx_file(f) == f.text

load_doc_file(f) ==
    "[Document content from " \o f.name \o " - please convert to .txt or .docx format]"

determine_doc_type(filename, content) ==
    LET filename_lower == lower(filename)
        content_lower == lower(content)
    IN  IF AnyIn({"api", "endpoint", "reference"}, filename_lower) THEN "api"
        ELSE IF AnyIn({"tutorial", "guide", "howto", "step"}, filename_lower) THEN "tutorial"
        ELSE IF AnyIn({"glossary", "definition", "terms"}, filename_lower) THEN "glossary"
        ELSE IF AnyIn({"usecase", "use_case", "scenario", "example"}, filename_lower)
        THEN "use_case"
        ELSE IF AnyIn({"endpoint", "api call", "http", "rest"}, content_lower) THEN "api"
        ELSE IF AnyIn({"step 1", "first step", "tutorial", "how to"}, content_lower)
        THEN "tutorial"
        ELSE IF AnyIn({"definition:", "means:", "refers to"}, content_lower) THEN "glossary"
        ELSE IF AnyIn({"use case", "scenario", "example"}, content_lower) THEN "use_case"
        ELSE "integration"

assess_complexity(content) ==
    LET content_lower == lower(content)
        base_complexity == IF Len(content) < 800 THEN "low"
                           ELSE IF Len(content) < 3000 THEN "medium" ELSE "high"
        technical_count ==
            Cardinality({w \in {"api", "endpoint", "json", "webhook", "authentication",
                                "oauth"} : StrIn(w, content_lower)})
    IN  IF technical_count >= 5 THEN "high"
        ELSE IF technical_count >= 2 /\ base_complexity = "low" THEN "medium"
        ELSE base_complexity

determine_integration_level(content) ==
    LET content_lower == lower(content)
    IN  IF AnyIn({"partner", "marketplace", "generic"}, content_lower) THEN "partner"
        ELSE IF AnyIn({"application", "crm", "system integration"}, content_lower)
        THEN "application"
        ELSE "standard"

supported_extensions == <<".txt", ".docx", ".doc", ".md">>

IsSupported(name) ==
    \E i \in 1..Len(supported_extensions) :
        endswith(lower(name), supported_extensions[i], NoValue).value

MinContentLen == 10

\* the body of the for loop for one file: Ok(<<document>>), Ok(<<>>) when the
\* file is skipped, or the exception that the except clause reports
LoadOne(f) ==
    LET name == lower(f.name)
        isText == endswith(name, ".txt", Str(".md"))
        isDocx == endswith(name, ".docx", NoValue)
        isDoc == endswith(name, ".doc", NoValue)
        made(content) ==
            IF Len(content) = 0 \/ Len(strip(content)) < MinContentLen THEN Ok(<<>>)
            ELSE Ok(<< [content |-> strip(content),
                        title |-> TitleFrom(replace(replace(splitext_root(f.name),
                                                            "_", " "), "-", " "), FALSE),
                        type |-> determine_doc_type(f.name, content),
                        complexity |-> assess_complexity(content),
                        integration_level |-> determine_integration_level(content),
                        filename |-> f.name,
                        file_size |-> Len(content)] >>)
    IN  IF isText.raised THEN isText
        ELSE IF isText.value THEN made(load_text_file(f))
        ELSE IF isDocx.value THEN made(load_docx_file(f))
        ELSE IF isDoc.value THEN made(load_doc_file(f))
        ELSE Ok(<<>>)

RECURSIVE LoadAll(_)
LoadAll(files) ==
    IF Len(files) = 0 THEN <<>>
    ELSE LET one == LoadOne(files[1])
         IN  (IF one.raised THEN <<>> ELSE one.value) \o LoadAll(Tail(files))

load_documents_from_folder(dir) ==
    IF dir = NoFolder THEN <<>>
    ELSE LET files == SelectSeq(dir.files, LAMBDA f : IsSupported(f.name))
         IN  IF Len(files) = 0 THEN <<>> ELSE LoadAll(files)

FileNames == {"notes.txt", "API_Guide.MD", "contract-spec.docx", "old.doc", "logo.png"}

FileTexts ==
    {"", "  draft  ", "Step 1: call the API endpoint and create a contract in the CRM."}

MaxFiles == 2

\* what os.listdir can give: distinct names, in any order
Folders ==
    {NoFolder} \cup
    {[t |-> "folder", files |-> q] :
        q \in {q \in SeqsUpTo([name : FileNames, text : FileTexts], MaxFiles) :
                  \A i, j \in 1..Len(q) : i # j => q[i].name # q[j].name}}

LoadDocuments ==
    /\ documents = NoValue
    /\ documents' = load_documents_from_folder(folder)
    /\ UNCHANGED folder
    /\ UNCHANGED exceptLoader

InitLoader ==
    /\ folder \in Folders
    /\ documents = NoValue

NextLoader == LoadDocuments

DocumentKeys == {"content", "title", "type", "complexity", "integration_level"}

\* C9 as stated: every file with a supported extension and at least ten
\* characters of content (blanks at the ends not counted) yields exactly one
\* document with content, title, type, complexity and integration_level.
C9_Original ==
    documents # NoValue /\ folder # NoFolder =>
        \A i \in 1..Len(folder.files) :
            LET f == folder.files[i]
            IN  IsSupported(f.name) /\ Len(strip(f.text)) >= MinContentLen =>
                    /\ Cardinality({j \in 1..Len(documents) :
                                       documents[j].filename = f.name}) = 1
                    /\ \A j \in 1..Len(documents) :
                          DocumentKeys \subseteq DOMAIN documents[j]

\* the loader was given notes.txt with enough content and returned nothing
C9_Witness ==
    /\ documents = <<>>
    /\ folder # NoFolder
    /\ \E i \in 1..Len(folder.files) :
          /\ folder.files[i].name = "notes.txt"
          /\ Len(strip(folder.files[i].text)) >= MinContentLen

(***************************************************************************)
(* EnhancedFeasibilityAnalyzer: five collections, hybrid search            *)
(***************************************************************************)
\* collection_configs, in the order the collections are created
Collections ==
    <<"api_specifications", "integration_guides", "tutorials_examples",
      "glossary_concepts", "use_cases_patterns">>

CollectionNames == {Collections[i] : i \in 1..Len(Collections)}

ContentTypeValues == {"api_spec", "integration_guide", "tutorial", "glossary", "use_case"}

\* ContentType(value): the enum member, or ValueError
ContentType(v) ==
    IF v \in ContentTypeValues THEN Ok(v)
    ELSE Raise("'" \o v \o "' is not a valid ContentType")

Num(v) == [t |-> "num", v |-> v]

Document(page_content, source_type, title) ==
    [page_content |-> page_content,
     metadata |-> [source_type |-> source_type, title |-> title]]

\* The seed documents, each named by the first line of its page_content.
_populate_integration_guides ==
    << Document("Standard Integration Overview", "integration_guide",
                "Standard Integration Overview"),
       Document("Application Integration Patterns", "integration_guide",
                "Application Integration Patterns"),
       Document("Partner Integration Framework", "integration_guide",
                "Partner Integration Framework") >>

_populate_tutorials ==
    << Document("Web Form Integration Tutorial", "tutorial",
                "Web Form Integration Tutorial") >>

_populate_glossary ==
    << Document("Term: Contract", "glossary", ""),
       Document("Term: Participant", "glossary", ""),
       Document("Term: Party", "glossary", ""),
       Document("Term: Template", "glossary", ""),
       Document("Term: Workspace", "glossary", "") >>

_populate_use_cases ==
    << Document("CRM Integration Pattern", "use_case", "CRM Integration Pattern"),
       Document("E-commerce Checkout Integration", "use_case",
                "E-commerce Checkout Integration") >>

_create_fallback_api_docs ==
    << Document("POST /contracts", "api_spec", ""),
       Document("GET /contracts/{id}", "api_spec", "") >>

\* data.get(...) on what the caller passes as the operation
_format_api_endpoint_content(path, method, data) ==
    IF data.t # "dict"
    THEN Raise("'" \o data.t \o "' object has no attribute 'get'")
    ELSE Ok("API Endpoint: " \o upper(method) \o " " \o path)

\* the keys of an endpoint record of the knowledge base, in the order in
\* which _extract_endpoints and _get_fallback_knowledge_base enter them
EndpointKeyOrder ==
    <<"path", "method", "summary", "tags", "responses", "workflow_category",
      "prerequisites", "follow_ups">>

ItemValue(endpoint_data, key) ==
    CASE key \in {"tags", "prerequisites", "follow_ups"} -> List(endpoint_data[key])
      [] key = "responses" -> [t |-> "dict", v |-> endpoint_data[key]]
      [] OTHER -> Str(endpoint_data[key])

\* endpoint_data.items()
EndpointItems(endpoint_data) ==
    LET keys == SelectSeq(EndpointKeyOrder, LAMBDA k : k \in DOMAIN endpoint_data)
    IN  [i \in 1..Len(keys) |-> <<keys[i], ItemValue(endpoint_data, keys[i])>>]

\* the documents of the inner loop for one endpoint record: each item of
\* the record is taken for a (method, operation) pair
RECURSIVE ItemDocuments(_, _, _)
ItemDocuments(endpoint_path, items, i) ==
    IF i > Len(items) THEN Ok(<<>>)
    ELSE LET content == _format_api_endpoint_content(endpoint_path, items[i][1],
                                                     items[i][2])
             rest == ItemDocuments(endpoint_path, items, i + 1)
         IN  IF content.raised THEN content
             ELSE IF rest.raised THEN rest
             ELSE Ok(<<Document(content.value, "api_spec", "")>> \o rest.value)

\* the outer loop over kb['endpoints'].items(), on the keys not yet visited
RECURSIVE EndpointDocuments(_, _)
EndpointDocuments(kb, keys) ==
    IF keys = {} THEN Ok(<<>>)
    ELSE LET k == CHOOSE key \in keys : TRUE
             docs == ItemDocuments(k, EndpointItems(kb.endpoints[k]), 1)
             rest == EndpointDocuments(kb, keys \ {k})
         IN  IF docs.raised THEN docs
             ELSE IF rest.raised THEN rest
             ELSE Ok(docs.value \o rest.value)

\* an exception anywhere in the loops ends in the except clause: return []
_process_existing_api_docs(kb) ==
    IF "endpoints" \notin DOMAIN kb THEN <<>>
    ELSE LET documents_made == EndpointDocuments(kb, DOMAIN kb.endpoints)
         IN  IF documents_made.raised THEN <<>> ELSE documents_made.value

_populate_api_specifications(use_existing_api_processor, kb) ==
    IF use_existing_api_processor THEN _process_existing_api_docs(kb)
    ELSE _create_fallback_api_docs

\* _populate_collections_if_needed on empty collections
_initialize_hybrid_knowledge_base(use_existing_api_processor, kb) ==
    [c \in CollectionNames |->
        CASE c = "api_specifications" ->
                 _populate_api_specifications(use_existing_api_processor, kb)
          [] c = "integration_guides" -> _populate_integration_guides
          [] c = "tutorials_examples" -> _populate_tutorials
          [] c = "glossary_concepts" -> _populate_glossary
          [] c = "use_cases_patterns" -> _populate_use_cases]

\* The embedding model is outside the program.  Its stand-in places a text
\* on a ring of EmbeddingRange points by its length; the distance between a
\* question and a document is the distance of their points.
EmbeddingRange == 7

Embed(text) == Len(text) % EmbeddingRange

Distance(question, content) ==
    LET d == Embed(question) - Embed(content)
    IN  IF d < 0 THEN -d ELSE d

SearchResult(content, metadata, score, source_type) ==
    [content |-> content, metadata |-> metadata, score |-> score,
     source_type |-> source_type]

\* sorted(..., key=lambda x: x.score): stable, ascending
RECURSIVE InsertByScore(_, _)
InsertByScore(x, s) ==
    IF Len(s) = 0 THEN <<x>>
    ELSE IF s[Len(s)].score <= x.score THEN Append(s, x)
    ELSE Append(InsertByScore(x, SubSeq(s, 1, Len(s) - 1)), s[Len(s)])

RECURSIVE SortedByScore(_)
SortedByScore(q) ==
    IF Len(q) = 0 THEN <<>>
    ELSE InsertByScore(q[Len(q)], SortedByScore(SubSeq(q, 1, Len(q) - 1)))

\* sorted(intent_scores.items(), key=lambda x: x[1], reverse=True): stable
RECURSIVE InsertByIntent(_, _)
InsertByIntent(x, s) ==
    IF Len(s) = 0 THEN <<x>>
    ELSE IF s[Len(s)][2] >= x[2] THEN Append(s, x)
    ELSE Append(InsertByIntent(x, SubSeq(s, 1, Len(s) - 1)), s[Len(s)])

RECURSIVE SortedByIntent(_)
SortedByIntent(q) ==
    IF Len(q) = 0 THEN <<>>
    ELSE InsertByIntent(q[Len(q)], SortedByIntent(SubSeq(q, 1, Len(q) - 1)))

Min(a, b) == IF a <= b THEN a ELSE b
Max(a, b) == IF a >= b THEN a ELSE b

\* Chroma.similarity_search_with_score(question, k): the k nearest documents
\* with their distances, nearest first.  Asked for fewer than one result or
\* for more than the collection holds, a lenient store returns what it has
\* and a strict one raises.  `down` says that the store cannot be queried.
similarity_search_with_score(store, question, k, down, lenient) ==
    IF down THEN Raise("Connection error.")
    ELSE IF (k < 1 \/ k > Len(store)) /\ ~lenient
    THEN Raise("Number of requested results " \o ToString(k) \o " is not served")
    ELSE LET scored == [i \in 1..Len(store) |->
                           [doc |-> store[i],
                            score |-> Distance(question, store[i].page_content)]]
         IN  Ok(SubSeq(SortedByScore(scored), 1, Min(Max(k, 0), Len(store))))

\* the for loop over collection_results: results made until ContentType raises
RECURSIVE MakeResults(_)
MakeResults(found) ==
    IF Len(found) = 0 THEN [results |-> <<>>, error |-> ""]
    ELSE LET st == ContentType(found[1].doc.metadata.source_type)
         IN  IF st.raised THEN [results |-> <<>>, error |-> st.error]
             ELSE LET rest == MakeResults(Tail(found))
                  IN  [results |-> <<SearchResult(found[1].doc.page_content,
                                                   found[1].doc.metadata,
                                                   found[1].score, st.value)>>
                                    \o rest.results,
                       error |-> rest.error]

\* one pass of the try block around a collection's search: the results it
\* appended and the error it printed ("" if none)
SearchCollection(stores, name, question, k, failing, lenient) ==
    LET found == similarity_search_with_score(stores[name], question, k,
                                              name \in failing, lenient)
    IN  IF found.raised THEN [results |-> <<>>, error |-> found.error]
        ELSE MakeResults(found.value)

CountIn(words, s) == Cardinality({w \in words : StrIn(w, s)})

\* the dict is returned in the order its keys are inserted
_analyze_query_intent(question) ==
    LET question_lower == lower(question)
    IN  << <<"api_specifications",
             CountIn({"endpoint", "api", "parameter", "response", "request", "method",
                      "post", "get"}, question_lower)>>,
           <<"integration_guides",
             CountIn({"integrate", "integration", "connect", "sync", "crm", "system",
                      "workflow"}, question_lower)>>,
           <<"tutorials_examples",
             CountIn({"how to", "tutorial", "example", "step", "guide", "implement"},
                     question_lower)>>,
           <<"use_cases_patterns",
             CountIn({"business", "scenario", "pattern", "value", "benefit", "process"},
                     question_lower)>>,
           <<"glossary_concepts",
             CountIn({"what is", "define", "meaning", "term", "concept"},
                     question_lower)>> >>

\* a search over a list of collections, in order: results, the collections
\* queried and the errors swallowed
RECURSIVE SearchEach(_, _, _, _, _, _)
SearchEach(stores, names, question, k, failing, lenient) ==
    IF Len(names) = 0 THEN [results |-> <<>>, queried |-> <<>>, errors |-> <<>>]
    ELSE LET one == SearchCollection(stores, names[1], question, k, failing, lenient)
             rest == SearchEach(stores, Tail(names), question, k, failing, lenient)
         IN  [results |-> one.results \o rest.results,
              queried |-> <<names[1]>> \o rest.queried,
              errors |-> (IF one.error = "" THEN <<>> ELSE <<one.error>>) \o rest.errors]

_targeted_search_NoScoreTest(stores, question, intent_scores, k, failing, lenient) ==
    LET sorted_collections == SortedByIntent(intent_scores)
        top == SubSeq(sorted_collections, 1, Min(2, Len(sorted_collections)))
        names == [i \in 1..Len(top) |-> top[i][1]]
    IN  SearchEach(stores, names, question,
                   IF Len(sorted_collections) > 1 THEN k \div 2 ELSE k, failing, lenient)

_targeted_search(stores, question, intent_scores, k, failing, lenient) ==
    LET sorted_collections == SortedByIntent(intent_scores)
        top == SubSeq(sorted_collections, 1, Min(2, Len(sorted_collections)))
        chosen == SelectSeq(top, LAMBDA item : item[2] > 0)
        names == [i \in 1..Len(chosen) |-> chosen[i][1]]
    IN  SearchEach(stores, names, question,
                   IF Len(sorted_collections) > 1 THEN k \div 2 ELSE k, failing, lenient)

_cross_collection_search(stores, question, k, failing, lenient) ==
    LET per_collection_k == Max(1, k \div Len(Collections))
    IN  SearchEach(stores, Collections, question, per_collection_k, failing, lenient)

\* hashlib.md5(content.encode()).hexdigest(): the texts of the model have
\* pairwise different digests
md5(content) == <<"md5", content>>

Deduplicate_KeepsEveryCopy(results, seen_content) == results

RECURSIVE Deduplicate(_, _)
Deduplicate(results, seen_content) ==
    IF Len(results) = 0 THEN <<>>
    ELSE LET content_hash == md5(results[1].content)
         IN  IF content_hash \notin seen_content
             THEN <<results[1]>>
                  \o Deduplicate(Tail(results), seen_content \cup {content_hash})
             ELSE Deduplicate(Tail(results), seen_content)

MaxPerSourceType == 3

\* kept: final_results so far; source_type_counts is read off it
RECURSIVE Diversify(_, _)
Diversify(results, kept) ==
    IF Len(results) = 0 THEN kept
    ELSE LET source_type == results[1].source_type
             count == Cardinality({i \in 1..Len(kept) : kept[i].source_type = source_type})
         IN  IF count < MaxPerSourceType
             THEN Diversify(Tail(results), Append(kept, results[1]))
             ELSE Diversify(Tail(results), kept)

_merge_and_rank_results_NoCap(primary, context) ==
    Deduplicate(SortedByScore(primary \o context), {})

_merge_and_rank_results(primary, context) ==
    LET all_results == primary \o context
        unique_results == Deduplicate(SortedByScore(all_results), {})
    IN  Diversify(unique_results, <<>>)

Questions ==
    {"", "   ",
     "How to integrate with a CRM system?",
     "Which API endpoint creates a contract?",
     "What is a workspace?",
     "api integration",
     "business process example",
     "What does it cost?",
     "define the business api"}

\* _analyze_query_intent, worked out once for each question of the model
QueryIntent == [question \in Questions |-> _analyze_query_intent(question)]

hybrid_search_NoTruncation(stores, question, k, failing, lenient) ==
    LET query_intent == QueryIntent[question]
        primary == _targeted_search(stores, question, query_intent, k \div 2,
                                    failing, lenient)
        context == _cross_collection_search(stores, question, k \div 2, failing, lenient)
    IN  [results |-> _merge_and_rank_results(primary.results, context.results),
         merged |-> _merge_and_rank_results(primary.results, context.results),
         query_intent |-> query_intent,
         primary |-> primary,
         context |-> context]

hybrid_search(stores, question, k, failing, lenient) ==
    LET query_intent == QueryIntent[question]
        primary == _targeted_search(stores, question, query_intent, k \div 2,
                                    failing, lenient)
        context == _cross_collection_search(stores, question, k \div 2, failing, lenient)
        all_results == _merge_and_rank_results(primary.results, context.results)
    IN  [results |-> SubSeq(all_results, 1, Min(Max(k, 0), Len(all_results))),
         merged |-> all_results,
         query_intent |-> query_intent,
         primary |-> primary,
         context |-> context]

\* the replies of the chat model that the enhanced analyzer is run against
EnhancedReplies ==
    {[kind |-> "prompt", toks |-> <<>>, error |-> "Invalid prompt variables"],
     [kind |-> "raise", toks |-> <<>>, error |-> "Rate limit exceeded"],
     [kind |-> "none", toks |-> <<>>, error |-> ""]}
    \cup {[kind |-> "text", toks |-> q, error |-> ""] :
            q \in {<<"Sure">>,
                   <<"{", "}">>,
                   <<"Sure", "{", M_FEASIBILITY_YES, M_CONFIDENCE_09, "}">>,
                   <<"{", M_FEASIBILITY, M_CONFIDENCE, "}", "Sure">>,
                   <<"{", "Sure", "}">>,
                   <<"}", "{">>}}

\* the dataclass: fields in the order of its declaration
EnhancedAssessment(feas, conf, expl, reqs, cplx, ctx, caveats, endpoints, patterns, steps, sources) ==
    [feasibility |-> feas, confidence |-> conf, explanation |-> expl,
     api_requirements |-> reqs, integration_complexity |-> cplx,
     business_context |-> ctx, caveats |-> caveats, related_endpoints |-> endpoints,
     integration_patterns |-> patterns, implementation_steps |-> steps,
     sources |-> sources]

_create_fallback_enhanced_assessment(question, error) ==
    EnhancedAssessment(
        Str("NEEDS_ANALYSIS"), Num("0.3"),
        Str("Could not complete enhanced analysis. " \o error),
        List(<<"Manual review required">>),
        Str("UNKNOWN - requires detailed analysis"),
        Str("Unable to determine without proper analysis"),
        List(<<"Enhanced analysis system unavailable", "Fallback assessment provided">>),
        List(<<>>), List(<<>>),
        List(<<"Contact technical team for detailed assessment">>),
        <<>>)

\* data.get(key, default)
DictGet(d, k, default) == IF k \in DOMAIN d THEN d[k] ELSE default

\* the try block of _parse_enhanced_response; re.search(r'\{.*\}', ..., DOTALL)
\* matches from the first "{" to the last "}" after it
ParseEnhancedTry(content, search_results) ==
    IF content.kind = "none"
    THEN Raise("expected string or bytes-like object, got 'NoneType'")
    ELSE LET first == PyFind("{", content.toks, 0)
             last == PyRFind("}", content.toks)
         IN  IF first < 0 \/ last < first THEN Raise("No JSON found in response")
             ELSE LET parsed == json_loads(PySlice(content.toks, first, last + 1))
                  IN  IF parsed.raised THEN parsed
                      ELSE LET data == parsed.value.v
                           IN  Ok(EnhancedAssessment(
                                   DictGet(data, "feasibility", Str("CONDITIONAL")),
                                   DictGet(data, "confidence", Num("0.5")),
                                   DictGet(data, "explanation", Str("Assessment completed")),
                                   DictGet(data, "api_requirements", List(<<>>)),
                                   DictGet(data, "integration_complexity", Str("MEDIUM")),
                                   DictGet(data, "business_context",
                                           Str("Standard integration scenario")),
                                   DictGet(data, "caveats", List(<<>>)),
                                   DictGet(data, "related_endpoints", List(<<>>)),
                                   DictGet(data, "integration_patterns", List(<<>>)),
                                   DictGet(data, "implementation_steps", List(<<>>)),
                                   search_results))

_parse_enhanced_response(content, search_results) ==
    LET r == ParseEnhancedTry(content, search_results)
    IN  IF r.raised THEN _create_fallback_enhanced_assessment("", r.error) ELSE r.value

DefaultK == 8

AssessTry_NoEmptyTest(question, search, reply) ==
    LET search_results == search.results
    IN  IF reply.kind = "prompt"
        THEN [outcome |-> Raise(reply.error), search |-> search, llm_calls |-> 0,
              steps |-> <<"hybrid_search", "prompt">>]
        ELSE IF reply.kind = "raise"
        THEN [outcome |-> Raise(reply.error), search |-> search, llm_calls |-> 1,
              steps |-> <<"hybrid_search", "prompt", "ainvoke">>]
        ELSE [outcome |-> Ok(_parse_enhanced_response(reply, search_results)),
              search |-> search, llm_calls |-> 1,
              steps |-> <<"hybrid_search", "prompt", "ainvoke", "parse">>]

\* the try block of assess_feasibility_enhanced: the assessment or the
\* exception, the search it ran, the number of model invocations and the
\* calls made, in order (search is hybrid_search(question, k=8) as it ran
\* in this call)
AssessTry(question, search, reply) ==
    LET search_results == search.results
    IN  IF Len(search_results) = 0
        THEN [outcome |-> Ok(_create_fallback_enhanced_assessment(question, "")),
              search |-> search, llm_calls |-> 0,
              steps |-> <<"hybrid_search", "fallback">>]
        ELSE IF reply.kind = "prompt"
        THEN [outcome |-> Raise(reply.error), search |-> search, llm_calls |-> 0,
              steps |-> <<"hybrid_search", "prompt">>]
        ELSE IF reply.kind = "raise"
        THEN [outcome |-> Raise(reply.error), search |-> search, llm_calls |-> 1,
              steps |-> <<"hybrid_search", "prompt", "ainvoke">>]
        ELSE [outcome |-> Ok(_parse_enhanced_response(reply, search_results)),
              search |-> search, llm_calls |-> 1,
              steps |-> <<"hybrid_search", "prompt", "ainvoke", "parse">>]

assess_feasibility_enhanced_NoCatch(question, search, reply) ==
    LET r == AssessTry(question, search, reply)
    IN  [assessment |-> r.outcome.value, propagated |-> r.outcome.raised,
         search |-> r.search, llm_calls |-> r.llm_calls, steps |-> r.steps]

assess_feasibility_enhanced(question, search, reply) ==
    LET r == AssessTry(question, search, reply)
    IN  [assessment |-> IF r.outcome.raised
                        THEN _create_fallback_enhanced_assessment(question, r.outcome.error)
                        ELSE r.outcome.value,
         propagated |-> FALSE,
         search |-> r.search, llm_calls |-> r.llm_calls,
         steps |-> IF r.outcome.raised THEN r.steps \o <<"fallback">> ELSE r.steps]

collection_mapping_DefaultApi(doc_type) ==
    CASE doc_type = "api" -> "api_specifications"
      [] doc_type = "integration" -> "integration_guides"
      [] doc_type = "tutorial" -> "tutorials_examples"
      [] doc_type = "glossary" -> "glossary_concepts"
      [] doc_type = "use_case" -> "use_cases_patterns"
      [] OTHER -> "api_specifications"

\* collection_mapping.get(doc_type, "integration_guides")
collection_mapping(doc_type) ==
    CASE doc_type = "api" -> "api_specifications"
      [] doc_type = "integration" -> "integration_guides"
      [] doc_type = "tutorial" -> "tutorials_examples"
      [] doc_type = "glossary" -> "glossary_concepts"
      [] doc_type = "use_case" -> "use_cases_patterns"
      [] OTHER -> "integration_guides"

RECURSIVE AddFrom_SkipsStoredContent(_, _, _, _)
AddFrom_SkipsStoredContent(stores, docs, i, fails_at) ==
    IF i > Len(docs) THEN [stores |-> stores, raised |-> FALSE, error |-> ""]
    ELSE LET doc_data == docs[i]
             doc_type == DictGet(doc_data, "type", "integration_guide")
             collection_name == collection_mapping(doc_type)
         IN  IF "content" \notin DOMAIN doc_data
             THEN [stores |-> stores, raised |-> TRUE, error |-> "'content'"]
             ELSE IF i = fails_at
             THEN [stores |-> stores, raised |-> TRUE, error |-> "Connection error."]
             ELSE IF \E j \in 1..Len(stores[collection_name]) :
                        stores[collection_name][j].page_content = doc_data["content"]
             THEN AddFrom_SkipsStoredContent(stores, docs, i + 1, fails_at)
             ELSE LET doc == Document(doc_data["content"], "integration_guide",
                                      DictGet(doc_data, "title", "Untitled"))
                  IN  AddFrom_SkipsStoredContent(
                          [stores EXCEPT ![collection_name] = Append(@, doc)],
                          docs, i + 1, fails_at)

\* the for loop of add_integration_documents from document i on; fails_at is
\* the document whose add_documents call raises (0: none does).  The loop has
\* no try: an exception ends the call with the earlier documents stored.
RECURSIVE AddFrom(_, _, _, _)
AddFrom(stores, docs, i, fails_at) ==
    IF i > Len(docs) THEN [stores |-> stores, raised |-> FALSE, error |-> ""]
    ELSE LET doc_data == docs[i]
             doc_type == DictGet(doc_data, "type", "integration_guide")
             collection_name == collection_mapping(doc_type)
         IN  IF "content" \notin DOMAIN doc_data
             THEN [stores |-> stores, raised |-> TRUE, error |-> "'content'"]
             ELSE IF i = fails_at
             THEN [stores |-> stores, raised |-> TRUE, error |-> "Connection error."]
             ELSE LET doc == Document(doc_data["content"], "integration_guide",
                                      DictGet(doc_data, "title", "Untitled"))
                  IN  AddFrom([stores EXCEPT ![collection_name] = Append(@, doc)],
                              docs, i + 1, fails_at)

add_integration_documents(stores, docs, fails_at) == AddFrom(stores, docs, 1, fails_at)

DocTypes == {"api", "integration", "tutorial", "glossary", "use_case", "faq"}

NewContents == {"Salesforce sync guide", "Partner Integration Framework"}

\* the document dictionaries handed to add_integration_documents
DocInputs ==
    {("content" :> c @@ "type" :> ty) : c \in NewContents, ty \in DocTypes}
    \cup {("content" :> c) : c \in NewContents}
    \cup {("type" :> "api" @@ "title" :> "No content")}

MaxBatch == 2

MaxK == 12

FailureSets == {{}, CollectionNames, {"integration_guides"}}

\* one call is observed per behaviour
AddIntegrationDocuments ==
    /\ hybrid_trace.op = "none"
    /\ \E docs \in SeqsUpTo(DocInputs, MaxBatch) :
          /\ \E fails_at \in 0..Len(docs) :
                LET r == add_integration_documents(vector_stores, docs, fails_at)
                IN  /\ vector_stores' = r.stores
                    /\ hybrid_trace' = [op |-> "ingest", documents |-> docs,
                                        fails_at |-> fails_at, before |-> vector_stores,
                                        raised |-> r.raised, error |-> r.error]
    /\ UNCHANGED exceptHybrid

\* neither a search nor an assessment changes the stores, so a call that
\* follows another does what it would do in its place
HybridSearch ==
    /\ hybrid_trace.op = "none"
    /\ \E question \in Questions, k \in 0..MaxK, lenient \in BOOLEAN :
          hybrid_trace' = [op |-> "search", question |-> question, k |-> k,
                           lenient |-> lenient,
                           search |-> hybrid_search(vector_stores, question, k, {},
                                                    lenient)]
    /\ UNCHANGED vector_stores
    /\ UNCHANGED exceptHybrid

AssessFeasibilityEnhanced ==
    /\ hybrid_trace.op = "none"
    /\ \E question \in Questions, failing \in FailureSets, lenient \in BOOLEAN :
          LET search == hybrid_search(vector_stores, question, DefaultK, failing, lenient)
          IN  \E reply \in EnhancedReplies :
                 LET r == assess_feasibility_enhanced(question, search, reply)
                 IN  hybrid_trace' = [op |-> "assess", question |-> question,
                                      failing |-> failing, lenient |-> lenient,
                                      reply |-> reply, search |-> r.search,
                                      llm_calls |-> r.llm_calls,
                                      steps |-> r.steps,
                                      propagated |-> r.propagated,
                                      assessment |-> r.assessment]
    /\ UNCHANGED vector_stores
    /\ UNCHANGED exceptHybrid

StoredQuestions == {"How to integrate with a CRM system?", ""}

\* a hybrid search made after an ingestion call
SearchStored ==
    /\ hybrid_trace.op = "ingest"
    /\ \E question \in StoredQuestions :
          hybrid_trace' = [op |-> "search_stored", question |-> question,
                           ingest |-> hybrid_trace, stores_before |-> vector_stores,
                           results |-> hybrid_search(vector_stores, question, DefaultK,
                                                     {}, TRUE).results]
    /\ UNCHANGED vector_stores
    /\ UNCHANGED exceptHybrid

NextStores ==
    \/ AddIntegrationDocuments
    \/ SearchStored

\* EnhancedFeasibilityAnalyzer() on an empty database directory
SeedStores ==
    {_initialize_hybrid_knowledge_base(use, kb) :
        use \in BOOLEAN, kb \in {_get_fallback_knowledge_base, DerivedKB(YAML_A)}}

InitIngest ==
    /\ vector_stores \in SeedStores
    /\ hybrid_trace = [op |-> "none"]

NextIngest == AddIntegrationDocuments

MaxStored == 1

\* three partner documents: two guides filed as tutorials and a copy of a seed
\* guide filed as a use case; each is stored with the integration_guide tag
PartnerBatch ==
    << ("content" :> "Salesforce sync guide" @@ "type" :> "tutorial"),
       ("content" :> "Salesforce sync steps" @@ "type" :> "tutorial"),
       ("content" :> "Partner Integration Framework" @@ "type" :> "use_case") >>

\* the stores after construction and the ingestion of up to MaxStored
\* documents, or of the partner batch
InitHybrid ==
    /\ vector_stores \in
          {add_integration_documents(seeded, docs, 0).stores :
              seeded \in SeedStores,
              docs \in SeqsUpTo({d \in DocInputs : "content" \in DOMAIN d}, MaxStored)
                        \cup {PartnerBatch}}
    /\ hybrid_trace = [op |-> "none"]

NextHybrid ==
    \/ HybridSearch
    \/ AssessFeasibilityEnhanced

HybridResults == hybrid_trace.search.results

SwallowedErrors == hybrid_trace.search.primary.errors \o hybrid_trace.search.context.errors

\* the text of the exception raised after the search, "" if there is none
LaterError ==
    LET reply == hybrid_trace.reply
        first == PyFind("{", reply.toks, 0)
        last == PyRFind("}", reply.toks)
    IN  IF Len(HybridResults) = 0 THEN ""
        ELSE IF reply.kind \in {"prompt", "raise"} THEN reply.error
        ELSE IF reply.kind = "none"
        THEN "expected string or bytes-like object, got 'NoneType'"
        ELSE IF first < 0 \/ last < first THEN "No JSON found in response"
        ELSE json_loads(SubSeq(reply.toks, first + 1, last + 1)).error

IsNeedsAnalysis(a) == a.feasibility = Str("NEEDS_ANALYSIS") /\ a.confidence = Num("0.3")

\* C2 as stated: no exception reaches the caller, and whenever a search, the
\* prompt, the model call or the parsing fails the result is NEEDS_ANALYSIS
\* with confidence 0.3 and an explanation that embeds the error's text.
C2_Original ==
    hybrid_trace.op = "assess" =>
        LET errors == {SwallowedErrors[i] : i \in 1..Len(SwallowedErrors)}
                      \cup (IF LaterError = "" THEN {} ELSE {LaterError})
        IN  /\ ~hybrid_trace.propagated
            /\ errors # {} =>
                  /\ IsNeedsAnalysis(hybrid_trace.assessment)
                  /\ \E e \in errors : StrIn(e, hybrid_trace.assessment.explanation.v)

\* C2 amended: no exception reaches the caller.  A failure of the prompt, the
\* model call or the parsing gives NEEDS_ANALYSIS / 0.3 with the error's text
\* after the fixed sentence.  A failing search is swallowed where it happens:
\* with no result left the answer is NEEDS_ANALYSIS / 0.3 without any error
\* text, otherwise the assessment is made from the results that remain.
C2_FailuresContained ==
    hybrid_trace.op = "assess" =>
        LET a == hybrid_trace.assessment
        IN  /\ ~hybrid_trace.propagated
            /\ LaterError # "" =>
                  /\ IsNeedsAnalysis(a)
                  /\ a.explanation = Str("Could not complete enhanced analysis. "
                                         \o LaterError)
            /\ Len(HybridResults) = 0 =>
                  /\ IsNeedsAnalysis(a)
                  /\ a.explanation = Str("Could not complete enhanced analysis. ")
            /\ Len(HybridResults) > 0 /\ LaterError = "" =>
                  /\ a.sources = HybridResults
                  /\ a.explanation = Str("Assessment completed")
                  /\ a.feasibility \in {Str("YES"), Str("Maybe"), Str("CONDITIONAL")}

\* the search of one collection failed, the model was still asked and its
\* answer returned
C2_Witness ==
    /\ hybrid_trace.op = "assess"
    /\ hybrid_trace.failing = {"integration_guides"}
    /\ Len(SwallowedErrors) > 0
    /\ hybrid_trace.llm_calls = 1
    /\ hybrid_trace.assessment.feasibility = Str("YES")

CountOfType(results, source_type) ==
    Cardinality({i \in 1..Len(results) : results[i].source_type = source_type})

\* C26: within one assess_feasibility_enhanced call the model is invoked
\* at most once, after the hybrid search and never again after a failure;
\* when the search returns nothing the model is not invoked at all and the
\* NEEDS_ANALYSIS fallback with empty sources is returned.
C26_OneModelCall ==
    hybrid_trace.op = "assess" =>
        LET steps == hybrid_trace.steps
            invoked == {i \in 1..Len(steps) : steps[i] = "ainvoke"}
        IN  /\ hybrid_trace.llm_calls = Cardinality(invoked)
            /\ Cardinality(invoked) <= 1
            /\ steps[1] = "hybrid_search"
            /\ \A i \in 2..Len(steps) : steps[i] # "hybrid_search"
            /\ \A i \in invoked : i > 1
            /\ HybridResults = <<>> =>
                  /\ invoked = {}
                  /\ IsNeedsAnalysis(hybrid_trace.assessment)
                  /\ hybrid_trace.assessment.sources = <<>>
            /\ HybridResults # <<>> /\ hybrid_trace.reply.kind # "prompt" =>
                  Cardinality(invoked) = 1

\* every collection's search failed, nothing was found, and the fallback was
\* returned without a model call although the model would have answered
C26_Witness ==
    /\ hybrid_trace.op = "assess"
    /\ hybrid_trace.failing = CollectionNames
    /\ HybridResults = <<>>
    /\ hybrid_trace.reply.kind = "text"
    /\ hybrid_trace.llm_calls = 0
    /\ hybrid_trace.steps = <<"hybrid_search", "fallback">>
    /\ IsNeedsAnalysis(hybrid_trace.assessment)

\* C3: the list hybrid_search returns holds no content twice and no
\* source-type tag on more than three results.
C3_UniqueAndDiverse ==
    hybrid_trace.op \in {"search", "assess"} =>
        /\ \A i, j \in 1..Len(HybridResults) :
              i # j => HybridResults[i].content # HybridResults[j].content
        /\ \A source_type \in ContentTypeValues :
              CountOfType(HybridResults, source_type) <= 3

\* the searches found one content twice and four different contents tagged
\* integration_guide; three of these were kept
C3_Witness ==
    /\ hybrid_trace.op = "search"
    /\ LET pool == hybrid_trace.search.primary.results
                   \o hybrid_trace.search.context.results
       IN  /\ \E i, j \in 1..Len(pool) : i # j /\ pool[i].content = pool[j].content
           /\ Cardinality({pool[i].content : i \in {i \in 1..Len(pool) :
                              pool[i].source_type = "integration_guide"}}) >= 4
    /\ CountOfType(HybridResults, "integration_guide") = 3
    /\ Len(HybridResults) < hybrid_trace.k

\* the score _analyze_query_intent gave a collection, and the collection's
\* place in the order the scores were entered
IntentScore(name) ==
    LET qi == hybrid_trace.search.query_intent
    IN  qi[CHOOSE i \in 1..Len(qi) : qi[i][1] = name][2]

IntentPlace(name) ==
    LET qi == hybrid_trace.search.query_intent
    IN  CHOOSE i \in 1..Len(qi) : qi[i][1] = name

\* the collections that come before a collection when the scores are ranked:
\* a higher score first, equal scores in the order they were entered
RankedBefore(name) ==
    {other \in CollectionNames :
        \/ IntentScore(other) > IntentScore(name)
        \/ IntentScore(other) = IntentScore(name) /\ IntentPlace(other) < IntentPlace(name)}

TargetedQueried ==
    {hybrid_trace.search.primary.queried[i] :
        i \in 1..Len(hybrid_trace.search.primary.queried)}

\* C11: targeted search queries at most two collections; a collection it
\* queries has a score above zero and fewer than two collections ranked
\* before it (ties in the fixed order of the scores); a collection scoring
\* zero is never queried by it.
C11_TopTwoPositive ==
    hybrid_trace.op \in {"search", "assess"} =>
        /\ Len(hybrid_trace.search.primary.queried) <= 2
        /\ Cardinality(TargetedQueried) = Len(hybrid_trace.search.primary.queried)
        /\ \A name \in CollectionNames :
              name \in TargetedQueried <=>
                  IntentScore(name) > 0 /\ Cardinality(RankedBefore(name)) < 2

\* one collection scores above zero: it alone is queried, the runner-up of
\* the ranking scores zero and is left out
C11_Witness ==
    /\ hybrid_trace.op = "search"
    /\ Cardinality({name \in CollectionNames : IntentScore(name) > 0}) = 1
    /\ Len(hybrid_trace.search.primary.queried) = 1
    /\ \E name \in CollectionNames :
          /\ IntentScore(name) = 0
          /\ Cardinality(RankedBefore(name)) = 1
          /\ name \notin TargetedQueried

\* the k hybrid_search was called with
SearchK == IF hybrid_trace.op = "search" THEN hybrid_trace.k ELSE DefaultK

\* what the searches of the last call found, before merging
SearchPool == hybrid_trace.search.primary.results \o hybrid_trace.search.context.results

\* C12: the list hybrid_search(question, k) returns is in ascending order of
\* score and holds at most k results, for every k >= 0 (k = 8 when the
\* assessment calls it).
C12_SortedAndBounded ==
    hybrid_trace.op \in {"search", "assess"} =>
        /\ Len(HybridResults) <= SearchK
        /\ \A i, j \in 1..Len(HybridResults) :
              i < j => HybridResults[i].score <= HybridResults[j].score

\* the searches found their results out of order and more than k of them
\* survived the merge: exactly k are returned, of different scores
C12_Witness ==
    /\ hybrid_trace.op = "search"
    /\ hybrid_trace.k > 1
    /\ \E i, j \in 1..Len(SearchPool) : i < j /\ SearchPool[i].score > SearchPool[j].score
    /\ Len(_merge_and_rank_results(hybrid_trace.search.primary.results,
                                   hybrid_trace.search.context.results))
          > hybrid_trace.k
    /\ Len(HybridResults) = hybrid_trace.k
    /\ HybridResults[1].score < HybridResults[Len(HybridResults)].score

\* C13: for an empty or whitespace-only question every intent score is zero,
\* targeted search queries no collection and returns nothing, and every
\* result hybrid_search returns was found by the cross-collection search.
C13_BlankQuestion ==
    hybrid_trace.op \in {"search", "assess"} /\ strip(hybrid_trace.question) = "" =>
        /\ \A name \in CollectionNames : IntentScore(name) = 0
        /\ hybrid_trace.search.primary.queried = <<>>
        /\ hybrid_trace.search.primary.results = <<>>
        /\ \A i \in 1..Len(HybridResults) :
              \E j \in 1..Len(hybrid_trace.search.context.results) :
                 HybridResults[i] = hybrid_trace.search.context.results[j]

\* a whitespace-only question was searched and results came back
C13_Witness ==
    /\ hybrid_trace.op = "search"
    /\ hybrid_trace.question = "   "
    /\ hybrid_trace.search.primary.queried = <<>>
    /\ Len(hybrid_trace.search.context.queried) = Len(Collections)
    /\ Len(HybridResults) > 1

\* C18 as stated: every assessment of the hybrid engine has feasibility YES,
\* NO, CONDITIONAL or NEEDS_ANALYSIS and a number between 0 and 1 as its
\* confidence, whatever the model's JSON held.
C18_Original ==
    hybrid_trace.op = "assess" =>
        /\ hybrid_trace.assessment.feasibility
              \in {Str("YES"), Str("NO"), Str("CONDITIONAL"), Str("NEEDS_ANALYSIS")}
        /\ hybrid_trace.assessment.confidence.t = "num"
        /\ hybrid_trace.assessment.confidence.v \in {"0.3", "0.5", "0.9"}

\* the model's JSON object said "feasibility": "Maybe", "confidence": "Low"
\* and the assessment carries both values
C18_Witness ==
    /\ hybrid_trace.op = "assess"
    /\ hybrid_trace.llm_calls = 1
    /\ hybrid_trace.reply.kind = "text"
    /\ \E i \in 1..Len(hybrid_trace.reply.toks) : hybrid_trace.reply.toks[i] = M_CONFIDENCE
    /\ hybrid_trace.assessment.feasibility = Str("Maybe")
    /\ hybrid_trace.assessment.confidence = Str("Low")
    /\ hybrid_trace.assessment.sources = HybridResults

C10_Collection(doc_data) ==
    LET ty == IF "type" \in DOMAIN doc_data THEN doc_data["type"] ELSE "(none)"
    IN  CASE ty = "api" -> "api_specifications"
          [] ty = "integration" -> "integration_guides"
          [] ty = "tutorial" -> "tutorials_examples"
          [] ty = "glossary" -> "glossary_concepts"
          [] ty = "use_case" -> "use_cases_patterns"
          [] OTHER -> "integration_guides"

StoredCount(stores) ==
    Len(stores["api_specifications"]) + Len(stores["integration_guides"])
    + Len(stores["tutorials_examples"]) + Len(stores["glossary_concepts"])
    + Len(stores["use_cases_patterns"])

\* C10: every document that add_integration_documents stores is appended to
\* the collection its type maps to (integration_guides for a missing or
\* unknown type) and carries source_type "integration_guide".
C10_RoutedByType ==
    hybrid_trace.op = "ingest" =>
        LET docs == hybrid_trace.documents
            n == StoredCount(vector_stores) - StoredCount(hybrid_trace.before)
        IN  /\ n <= Len(docs)
            /\ ~hybrid_trace.raised => n = Len(docs)
            /\ \A c \in CollectionNames :
                  LET mine == SelectSeq(SubSeq(docs, 1, n),
                                        LAMBDA d : C10_Collection(d) = c)
                      old == hybrid_trace.before[c]
                  IN  /\ Len(vector_stores[c]) = Len(old) + Len(mine)
                      /\ SubSeq(vector_stores[c], 1, Len(old)) = old
                      /\ \A i \in 1..Len(mine) :
                            LET doc == vector_stores[c][Len(old) + i]
                            IN  /\ doc.page_content = mine[i]["content"]
                                /\ doc.metadata.source_type = "integration_guide"

\* a document of type api and one of an unknown type were stored in one call
C10_Witness ==
    /\ hybrid_trace.op = "ingest"
    /\ ~hybrid_trace.raised
    /\ Len(hybrid_trace.documents) = 2
    /\ "type" \in DOMAIN hybrid_trace.documents[1]
    /\ hybrid_trace.documents[1]["type"] = "api"
    /\ "type" \in DOMAIN hybrid_trace.documents[2]
    /\ hybrid_trace.documents[2]["type"] = "faq"
    /\ LET api == vector_stores["api_specifications"]
       IN  api[Len(api)].metadata.source_type = "integration_guide"
    /\ Len(vector_stores["integration_guides"]) = 4

\* what the merge of the call returned, before hybrid_search cut it to k
Merged == hybrid_trace.search.merged

Duplicated(x) == Cardinality({i \in 1..Len(SearchPool) : SearchPool[i].content = x}) > 1

KeptCopies(x) == {i \in 1..Len(Merged) : Merged[i].content = x}

\* the copy of content x that the stable sort by score puts first
FirstCopy(x) ==
    LET sorted == SortedByScore(SearchPool)
        at == CHOOSE i \in 1..Len(sorted) :
                  /\ sorted[i].content = x
                  /\ \A j \in 1..(i - 1) : sorted[j].content # x
    IN  sorted[at]

\* three results of the source type of r with scores not above its score
\* are in the merged list
CappedOut(r) ==
    Cardinality({i \in 1..Len(Merged) :
                    /\ Merged[i].source_type = r.source_type
                    /\ Merged[i].score <= r.score
                    /\ Merged[i].content # r.content}) = MaxPerSourceType

\* C28 (as stated): of a content found more than once by the two searches
\* exactly one copy is kept, the one with the lowest score.
C28_Original ==
    hybrid_trace.op \in {"search", "assess"} =>
        \A x \in {SearchPool[i].content : i \in 1..Len(SearchPool)} :
            Duplicated(x) =>
                /\ Cardinality(KeptCopies(x)) = 1
                /\ \A i \in KeptCopies(x) : \A j \in 1..Len(SearchPool) :
                      SearchPool[j].content = x => Merged[i].score <= SearchPool[j].score

\* C28 (amended): of every content found, at most one copy is kept, and a
\* kept copy is the one the ascending stable sort puts first, so none of
\* the copies has a lower score.  The content is left out altogether
\* exactly when three results of the source type of that first copy, with
\* scores not above its score, were kept before it; so a result is dropped
\* only as a duplicate or by this cap, and a duplicated content can lose
\* all its copies to the cap.
C28_OneCopyUnlessCapped ==
    hybrid_trace.op \in {"search", "assess"} =>
        \A x \in {SearchPool[i].content : i \in 1..Len(SearchPool)} :
            /\ Cardinality(KeptCopies(x)) <= 1
            /\ \A i \in KeptCopies(x) :
                  /\ Merged[i] = FirstCopy(x)
                  /\ \A j \in 1..Len(SearchPool) :
                        SearchPool[j].content = x => Merged[i].score <= SearchPool[j].score
            /\ KeptCopies(x) = {} <=> CappedOut(FirstCopy(x))

\* a content found twice is in the merged list once, and another content
\* found twice is not in it at all
C28_Witness ==
    /\ hybrid_trace.op = "search"
    /\ \E x \in {SearchPool[i].content : i \in 1..Len(SearchPool)} :
          Duplicated(x) /\ Cardinality(KeptCopies(x)) = 1
    /\ \E x \in {SearchPool[i].content : i \in 1..Len(SearchPool)} :
          Duplicated(x) /\ KeptCopies(x) = {}

\* the number of documents of a collection whose content is x
Copies(store, x) == Cardinality({i \in 1..Len(store) : store[i].page_content = x})

\* the documents of a call that were reached before it ended
Reached(trace) ==
    LET docs == trace.documents
        failing == {i \in 1..Len(docs) :
                       "content" \notin DOMAIN docs[i] \/ i = trace.fails_at}
    IN  IF failing = {} THEN docs
        ELSE SubSeq(docs, 1, (CHOOSE i \in failing : \A j \in failing : i <= j) - 1)

\* the ingestion call observed, also when a search has followed it
LastIngest == IF hybrid_trace.op = "search_stored" THEN hybrid_trace.ingest ELSE hybrid_trace

\* C27 (as stated): add_integration_documents stores exactly one document
\* per input document, in exactly one collection.
C27_Original ==
    hybrid_trace.op = "ingest" =>
        /\ StoredCount(vector_stores) - StoredCount(hybrid_trace.before)
              = Len(hybrid_trace.documents)
        /\ \A c \in CollectionNames :
              Len(vector_stores[c]) - Len(hybrid_trace.before[c])
                = Cardinality({i \in 1..Len(hybrid_trace.documents) :
                                 C10_Collection(hybrid_trace.documents[i]) = c})

\* C27 (amended): a call of add_integration_documents that returns has
\* stored exactly one document per input document, each in the one
\* collection of its type, the other collections unchanged; a call that
\* raises (a document without content, or the store failing) has done so
\* for the documents before the failing one and stored none from it on.
\* Nothing is deduplicated: every stored copy of a content adds one to the
\* copies its collection holds, whether or not the content was there.  A
\* search changes no collection.
C27_OnePerDocumentReached ==
    hybrid_trace.op \in {"ingest", "search_stored"} =>
        LET call == LastIngest
            reached == Reached(call)
        IN  /\ call.raised <=> Len(reached) < Len(call.documents)
            /\ StoredCount(vector_stores) - StoredCount(call.before) = Len(reached)
            /\ \A c \in CollectionNames :
                  /\ Len(vector_stores[c]) - Len(call.before[c])
                        = Cardinality({i \in 1..Len(reached) :
                                         C10_Collection(reached[i]) = c})
                  /\ \A x \in NewContents :
                        Copies(vector_stores[c], x) - Copies(call.before[c], x)
                          = Cardinality({i \in 1..Len(reached) :
                                           /\ C10_Collection(reached[i]) = c
                                           /\ reached[i]["content"] = x})
            /\ hybrid_trace.op = "search_stored" =>
                  vector_stores = hybrid_trace.stores_before

\* the content of a seeded guide was ingested twice in one call, the
\* collection grew from three to five documents, three of them with that
\* content, and a search that returned results left it so
C27_Witness ==
    /\ hybrid_trace.op = "search_stored"
    /\ hybrid_trace.results # <<>>
    /\ ~hybrid_trace.ingest.raised
    /\ Len(hybrid_trace.ingest.documents) = 2
    /\ \A i \in 1..2 :
          hybrid_trace.ingest.documents[i]["content"] = "Partner Integration Framework"
    /\ Len(hybrid_trace.ingest.before["integration_guides"]) = 3
    /\ Len(vector_stores["integration_guides"]) = 5
    /\ Copies(vector_stores["integration_guides"], "Partner Integration Framework") = 3

(***************************************************************************)
(* ResponseGenerator: the text made from an assessment of the simple       *)
(* engine.  The icons of the source are written as names between colons,   *)
(* its bullet as BULLET.                                                   *)
(***************************************************************************)
\* a list with items of any type (List holds strings), and a dict
Values(q) == [t |-> "values", v |-> q]
Dict(f) == [t |-> "dict", v |-> f]

\* type(v).__name__
TypeName(v) ==
    CASE v.t = "str" -> "str"
      [] v.t \in {"list", "values"} -> "list"
      [] v.t = "num" -> IF StrIn(".", v.v) THEN "float" ELSE "int"
      [] v.t = "bool" -> "bool"
      [] v.t = "dict" -> "dict"
      [] OTHER -> "NoneType"

\* bool(v), as in `if v:` and `if not v:`
Truthy(v) ==
    CASE v.t = "str" -> v.v # ""
      [] v.t \in {"list", "values"} -> Len(v.v) > 0
      [] v.t = "num" -> v.v \notin {"0", "0.0"}
      [] v.t = "bool" -> v.v
      [] v.t = "dict" -> DOMAIN v.v # {}
      [] OTHER -> FALSE

\* repr(v) and str(v): what an f-string writes for {v}
RECURSIVE PyRepr(_)
PyRepr(v) ==
    CASE v.t = "str" -> "'" \o v.v \o "'"
      [] v.t = "list" -> "[" \o JoinWith(", ", [i \in 1..Len(v.v) |-> "'" \o v.v[i] \o "'"])
                         \o "]"
      [] v.t = "values" -> "[" \o JoinWith(", ", [i \in 1..Len(v.v) |-> PyRepr(v.v[i])])
                           \o "]"
      [] v.t = "num" -> v.v
      [] v.t = "bool" -> IF v.v THEN "True" ELSE "False"
      [] OTHER -> "None"

PyStr(v) == IF v.t = "str" THEN v.v ELSE PyRepr(v)

\* for item in v: the items, or TypeError
Iterate(v) ==
    CASE v.t = "list" -> Ok([i \in 1..Len(v.v) |-> Str(v.v[i])])
      [] v.t = "values" -> Ok(v.v)
      [] v.t = "str" -> Ok([i \in 1..Len(v.v) |-> Str(SubSeq(v.v, i, i))])
      [] OTHER -> Raise("'" \o TypeName(v) \o "' object is not iterable")

\* v[:3]
FirstThree(v) ==
    CASE v.t = "list" -> Ok(List(SubSeq(v.v, 1, Min(3, Len(v.v)))))
      [] v.t = "values" -> Ok(Values(SubSeq(v.v, 1, Min(3, Len(v.v)))))
      [] v.t = "str" -> Ok(Str(SubSeq(v.v, 1, Min(3, Len(v.v)))))
      [] OTHER -> Raise("'" \o TypeName(v) \o "' object is not subscriptable")

\* table.get(key, default) on a dict with string keys
Lookup(table, key, default) ==
    IF key.t \in {"list", "values", "dict"}
    THEN Raise("unhashable type: '" \o TypeName(key) \o "'")
    ELSE IF key.t = "str" /\ key.v \in DOMAIN table THEN Ok(table[key.v])
    ELSE Ok(default)

\* v.replace('_', ' ')
ReplaceUnderscores(v) ==
    IF v.t = "str" THEN Ok(replace(v.v, "_", " "))
    ELSE Raise("'" \o TypeName(v) \o "' object has no attribute 'replace'")

BULLET == "*"

confidence_emojis == [High |-> ":green:", Medium |-> ":yellow:", Low |-> ":red:"]

feasibility_emojis == [Yes |-> ":check:", No |-> ":cross:", Conditional |-> ":warning:"]

_create_header(a, original_question) ==
    LET feasibility == DictGet(a, "feasibility", Str("Conditional"))
        confidence == DictGet(a, "confidence", Str("Medium"))
        quick_answer == DictGet(a, "quick_answer", Str("Assessment completed"))
        feasibility_icon == Lookup(feasibility_emojis, feasibility, ":question:")
        confidence_icon == Lookup(confidence_emojis, confidence, ":yellow:")
    IN  IF feasibility_icon.raised THEN feasibility_icon
        ELSE IF confidence_icon.raised THEN confidence_icon
        ELSE Ok("**" \o feasibility_icon.value \o " Quick Answer: " \o PyStr(feasibility)
                \o "** " \o confidence_icon.value \o "\n\n"
                \o "**" \o PyStr(quick_answer) \o "**")

capability_descriptions ==
    ("contract_creation" :> "Create contracts from your templates")
    @@ ("file_management" :> "Upload and manage documents/files")
    @@ ("multi_party_contracts" :> "Handle contracts with multiple parties and signers")
    @@ ("template_management" :> "Create and customize contract templates")
    @@ ("webhook_integration" :> "Set up real-time notifications and integrations")
    @@ ("contact_management" :> "Manage contact information and party details")
    @@ ("contract_publishing" :> "Send contracts for review and signing")
    @@ ("data_extraction" :> "Extract and use data from completed contracts")

\* the loop of _create_explanation; the default of .get is worked out first
RECURSIVE CapabilityLines(_)
CapabilityLines(items) ==
    IF Len(items) = 0 THEN Ok("")
    ELSE LET spelled == ReplaceUnderscores(items[1])
         IN  IF spelled.raised THEN spelled
             ELSE LET description == Lookup(capability_descriptions, items[1],
                                            "Use " \o spelled.value).value
                      rest == CapabilityLines(Tail(items))
                  IN  IF rest.raised THEN rest
                      ELSE Ok(BULLET \o " " \o description \o "\n" \o rest.value)

_create_explanation(a) ==
    LET capabilities == DictGet(a, "capabilities_used", List(<<>>))
    IN  IF ~Truthy(capabilities)
        THEN Ok("This request can be assessed based on OneFlow's general API capabilities.")
        ELSE LET items == Iterate(capabilities)
             IN  IF items.raised THEN items
                 ELSE LET lines == CapabilityLines(items.value)
                      IN  IF lines.raised THEN lines
                          ELSE Ok("**How this works with OneFlow:**\n" \o lines.value)

\* a loop that writes one bullet per item with the item's str()
RECURSIVE BulletLines(_)
BulletLines(items) ==
    IF Len(items) = 0 THEN ""
    ELSE BULLET \o " " \o PyStr(items[1]) \o "\n" \o BulletLines(Tail(items))

_create_caveats_section(a) ==
    LET caveats == DictGet(a, "important_caveats", List(<<>>))
    IN  IF ~Truthy(caveats) THEN Ok("")
        ELSE LET items == Iterate(caveats)
             IN  IF items.raised THEN items
                 ELSE Ok("**Important Considerations:**\n" \o BulletLines(items.value))

_create_business_impact(a) ==
    LET impact == DictGet(a, "business_impact", Str(""))
    IN  IF \/ ~Truthy(impact)
           \/ impact.t = "str" /\ impact.v = "Standard implementation considerations apply"
        THEN Ok("")
        ELSE Ok("**Business Impact:** " \o PyStr(impact))

feature_names ==
    ("contract_creation" :> "Contract Creation")
    @@ ("file_management" :> "Document Management")
    @@ ("multi_party_contracts" :> "Multi-Party Workflows")
    @@ ("template_management" :> "Template Customization")
    @@ ("webhook_integration" :> "API Integrations")
    @@ ("contact_management" :> "Contact Database")
    @@ ("contract_publishing" :> "Digital Signing")
    @@ ("data_extraction" :> "Data Automation")

\* the loop of _create_related_features; the default of .get is worked out first
RECURSIVE FeatureLines(_)
FeatureLines(items) ==
    IF Len(items) = 0 THEN Ok("")
    ELSE LET spelled == ReplaceUnderscores(items[1])
         IN  IF spelled.raised THEN spelled
             ELSE LET name == Lookup(feature_names, items[1],
                                     TitleFrom(spelled.value, FALSE)).value
                      rest == FeatureLines(Tail(items))
                  IN  IF rest.raised THEN rest
                      ELSE Ok(BULLET \o " " \o name \o "\n" \o rest.value)

RelatedHeading == "**You might also be interested in:**\n"

_create_related_features_NoLimit(a) ==
    LET related == DictGet(a, "related_features", List(<<>>))
    IN  IF ~Truthy(related) THEN Ok("")
        ELSE LET items == Iterate(related)
             IN  IF items.raised THEN items
                 ELSE LET lines == FeatureLines(items.value)
                      IN  IF lines.raised THEN lines
                          ELSE Ok(RelatedHeading \o lines.value)

_create_related_features(a) ==
    LET related == DictGet(a, "related_features", List(<<>>))
    IN  IF ~Truthy(related) THEN Ok("")
        ELSE LET top == FirstThree(related)
             IN  IF top.raised THEN top
                 ELSE LET lines == FeatureLines(Iterate(top.value).value)
                      IN  IF lines.raised THEN lines
                          ELSE Ok(RelatedHeading \o lines.value)

FollowUpHeading == "**To better help you, I'd like to know:**\n"

_create_follow_up_section(a) ==
    LET questions == DictGet(a, "follow_up_questions", List(<<>>))
    IN  IF ~Truthy(questions) THEN Ok("")
        ELSE LET top == FirstThree(questions)
             IN  IF top.raised THEN top
                 ELSE Ok(FollowUpHeading \o BulletLines(Iterate(top.value).value))

FallbackNotice ==
    "\n\n*Note: This assessment used fallback analysis. For more detailed evaluation, "
    \o "please ensure OpenAI integration is available.*"

_create_confidence_footer(a) ==
    LET confidence == DictGet(a, "confidence", Str("Medium"))
        reasoning == DictGet(a, "confidence_reasoning", Str(""))
        confidence_icon == Lookup(confidence_emojis, confidence, ":yellow:")
    IN  IF confidence_icon.raised THEN confidence_icon
        ELSE Ok("**" \o confidence_icon.value \o " Confidence Level: " \o PyStr(confidence)
                \o "**"
                \o (IF Truthy(reasoning) THEN " - " \o PyStr(reasoning) ELSE "")
                \o (IF Truthy(DictGet(a, "fallback_used", Null)) THEN FallbackNotice
                    ELSE ""))

ErrorBanner == "**:cross: Assessment Error**"

_create_error_response(error_message) ==
    ErrorBanner \o "\n\n"
    \o "I encountered an issue while generating this response: " \o error_message \o "\n\n"
    \o "Please try rephrasing your question or contact support if the issue persists.\n\n"
    \o "**You can try asking:**\n"
    \o BULLET \o " \"Can OneFlow create contracts from templates?\"\n"
    \o BULLET \o " \"Does OneFlow support file attachments?\"\n"
    \o BULLET \o " \"Can we set up multi-party contracts?\"\n"

\* the sections in the order generate_response appends them; a section
\* behind an `if` is appended when the field is truthy
Sections(a, original_question) ==
    <<_create_header(a, original_question), _create_explanation(a)>>
    \o (IF Truthy(DictGet(a, "important_caveats", Null))
        THEN <<_create_caveats_section(a)>> ELSE <<>>)
    \o <<_create_business_impact(a)>>
    \o (IF Truthy(DictGet(a, "related_features", Null))
        THEN <<_create_related_features(a)>> ELSE <<>>)
    \o (IF Truthy(DictGet(a, "follow_up_questions", Null))
        THEN <<_create_follow_up_section(a)>> ELSE <<>>)
    \o <<_create_confidence_footer(a)>>

\* the try block of generate_response: response_parts and the text joined
\* from them, or the first exception
GenerateTry(assessment_arg, original_question) ==
    IF assessment_arg.t # "dict"
    THEN [outcome |-> Raise("'" \o TypeName(assessment_arg) \o "' object has no attribute 'get'"),
          response_parts |-> <<>>]
    ELSE LET sections == Sections(assessment_arg.v, original_question)
             failed == {i \in 1..Len(sections) : sections[i].raised}
         IN  IF failed # {}
             THEN [outcome |-> Raise(sections[CHOOSE i \in failed :
                                                 \A j \in failed : i <= j].error),
                   response_parts |-> <<>>]
             ELSE LET response_parts == [i \in 1..Len(sections) |-> sections[i].value]
                  IN  [outcome |-> Ok(JoinWith("\n\n", response_parts)),
                       response_parts |-> response_parts]

generate_response_NoCatch(assessment_arg, original_question) ==
    LET r == GenerateTry(assessment_arg, original_question)
    IN  [raised |-> r.outcome.raised,
         returned |-> IF r.outcome.raised THEN NoValue ELSE Str(r.outcome.value),
         error |-> r.outcome.error, response_parts |-> r.response_parts]

\* returned: the value handed to the caller; error: the exception caught
generate_response(assessment_arg, original_question) ==
    LET r == GenerateTry(assessment_arg, original_question)
    IN  [raised |-> FALSE,
         returned |-> IF r.outcome.raised THEN Str(_create_error_response(r.outcome.error))
                      ELSE Str(r.outcome.value),
         error |-> r.outcome.error, response_parts |-> r.response_parts]

\* the assessments generate_response is given: answers of the simple
\* engine, the same with one field replaced by a value of another type or
\* by a list of up to MaxListed items, and values that are not a dict
ResponseBases == {ContractAnswer, ClarifyAnswer}

MaxListed == 5

ListedItems == <<"file_management", "crm_sync", "webhook_integration", "How many signers?">>

ItemLists ==
    {List([i \in 1..n |-> ListedItems[((i - 1) % Len(ListedItems)) + 1]]) : n \in 0..MaxListed}

OddValues ==
    {Null, Num("7"), Num("0"), Bool(TRUE), Str(""), Str("crm_sync"),
     Values(<<Str("crm_sync"), Num("7")>>), Values(<<Null>>)}

ResponseAssessments ==
    {Dict(a) : a \in ResponseBases}
    \cup {Dict([a EXCEPT ![k] = v]) :
             a \in ResponseBases, k \in DOMAIN ContractAnswer, v \in OddValues \cup ItemLists}
    \cup {Dict(assess_feasibility(Q_Scenario, [kind |-> "text", toks |-> toks])) :
             toks \in {<<"{", "}">>, <<"{", M_FEASIBILITY, M_CAVEATS_NULL, "}">>, <<"Sure">>}}
    \cup {Dict(<<>>), NoValue, Str("Yes"), List(<<>>), Num("7")}

GenerateResponse ==
    /\ response_request # NoValue
    /\ response = NoValue
    /\ response' = generate_response(response_request.assessment,
                                     response_request.original_question)
    /\ UNCHANGED response_request
    /\ UNCHANGED exceptResponse

InitResponse ==
    /\ response_request \in [assessment : ResponseAssessments,
                             original_question : {Q_Scenario}]
    /\ response = NoValue

NextResponse == GenerateResponse

\* a field of the assessment handed to generate_response (None if absent)
Given(key) == DictGet(response_request.assessment.v, key, Null)

NotAString(v) == v.t # "str"

\* the inputs on which a section raises: a feasibility or confidence that
\* cannot be a dict key, a truthy list field that is a number or a boolean,
\* a capability or one of the first three related features that is no string
BuildFails ==
    \/ response_request.assessment.t # "dict"
    \/ Given("feasibility").t \in {"list", "values"}
    \/ Given("confidence").t \in {"list", "values"}
    \/ \E key \in {"capabilities_used", "important_caveats", "related_features",
                   "follow_up_questions"} :
          Truthy(Given(key)) /\ Given(key).t \in {"num", "bool"}
    \/ /\ Given("capabilities_used").t = "values"
       /\ \E i \in 1..Len(Given("capabilities_used").v) :
             NotAString(Given("capabilities_used").v[i])
    \/ /\ Given("related_features").t = "values"
       /\ \E i \in 1..Min(3, Len(Given("related_features").v)) :
             NotAString(Given("related_features").v[i])

\* C16: generate_response never raises and returns a string; the string is
\* the canned error response, holding the error's message, exactly when
\* building a section fails.
C16_NeverRaises ==
    response # NoValue =>
        /\ ~response.raised
        /\ response.returned.t = "str"
        /\ BuildFails <=> response.error # ""
        /\ response.error # "" <=>
              /\ Len(response.returned.v) >= Len(ErrorBanner)
              /\ SubSeq(response.returned.v, 1, Len(ErrorBanner)) = ErrorBanner
        /\ response.error # "" => StrIn(response.error, response.returned.v)

\* related_features is the number 7: slicing it raises and the caller gets
\* the error response with the message of the TypeError
C16_Witness ==
    /\ response # NoValue
    /\ response_request.assessment.t = "dict"
    /\ Given("related_features") = Num("7")
    /\ ~response.raised
    /\ response.returned
         = Str(_create_error_response("'int' object is not subscriptable"))

\* text.split("\n")
SplitLines(text) ==
    LET breaks == {i \in 1..Len(text) : SubSeq(text, i, i) = "\n"}
        break(k) == IF k = 0 THEN 0
                    ELSE IF k > Cardinality(breaks) THEN Len(text) + 1
                    ELSE CHOOSE i \in breaks : Cardinality({j \in breaks : j < i}) = k - 1
    IN  [k \in 1..(Cardinality(breaks) + 1) |->
            SubSeq(text, break(k - 1) + 1, break(k) - 1)]

\* what the returned text lists under a heading: the bullets that follow it
Listed(heading) ==
    LET lines == SplitLines(response.returned.v)
        at == {i \in 1..Len(lines) : lines[i] \o "\n" = heading}
        first == CHOOSE i \in at : \A j \in at : i <= j
        IsBullet(i) == Len(lines[i]) >= 2 /\ SubSeq(lines[i], 1, 2) = BULLET \o " "
        last == CHOOSE i \in first..Len(lines) :
                    /\ \A j \in (first + 1)..i : IsBullet(j)
                    /\ i = Len(lines) \/ ~IsBullet(i + 1)
    IN  IF at = {} THEN <<>>
        ELSE [i \in 1..(last - first) |->
                 SubSeq(lines[first + i], 3, Len(lines[first + i]))]

\* the name a related feature is listed under
FeatureName(feature) ==
    IF feature \in DOMAIN feature_names THEN feature_names[feature]
    ELSE TitleFrom(replace(feature, "_", " "), FALSE)

\* C20: the text lists the first three entries of related_features, by
\* their names, and the first three entries of follow_up_questions, in
\* their order and no others, however long the two lists are.
C20_TopThree ==
    response # NoValue /\ response.error = "" =>
        /\ Given("related_features").t = "list" =>
              Listed(RelatedHeading)
                = [i \in 1..Min(3, Len(Given("related_features").v)) |->
                      FeatureName(Given("related_features").v[i])]
        /\ Given("follow_up_questions").t = "list" =>
              Listed(FollowUpHeading)
                = [i \in 1..Min(3, Len(Given("follow_up_questions").v)) |->
                      Given("follow_up_questions").v[i]]

\* five related features were given and three are listed
C20_Witness ==
    /\ response # NoValue
    /\ response.error = ""
    /\ Given("related_features").t = "list"
    /\ Len(Given("related_features").v) = 5
    /\ Listed(RelatedHeading) = <<"Document Management", "Crm Sync", "API Integrations">>
    /\ Len(Listed(FollowUpHeading)) = 2

(***************************************************************************)
(* DualAnalyzerManager: the enhanced analyzer first, the original one as   *)
(* fallback, an error result when both fail.  processing_time (the wall    *)
(* clock) is left out of the results.                                      *)
(***************************************************************************)
\* format(v, '.0%')
FormatPercent(v) ==
    CASE v.t = "num" -> Ok(CASE v.v = "0.3" -> "30%" [] v.v = "0.5" -> "50%"
                             [] v.v = "0.6" -> "60%" [] v.v = "0.9" -> "90%"
                             [] v.v = "0" -> "0%" [] OTHER -> v.v \o "00%")
      [] v.t = "bool" -> Ok(IF v.v THEN "100%" ELSE "0%")
      [] v.t = "str" -> Raise("Unknown format code '%' for object of type 'str'")
      [] OTHER -> Raise("unsupported format string passed to " \o TypeName(v)
                        \o ".__format__")

ResultDict(type, status, confidence, explanation, reqs, cplx, ctx, caveats, endpoints, patterns, steps, sources, raw) ==
    [type |-> type, status |-> status, confidence |-> confidence,
     explanation |-> explanation, api_requirements |-> reqs,
     integration_complexity |-> cplx, business_context |-> ctx, caveats |-> caveats,
     related_endpoints |-> endpoints, integration_patterns |-> patterns,
     implementation_steps |-> steps, sources |-> sources, raw_assessment |-> raw]

enhanced_status_icons ==
    ("YES" :> ":check:") @@ ("NO" :> ":cross:") @@ ("CONDITIONAL" :> ":warning:")
    @@ ("NEEDS_ANALYSIS" :> ":search:")

_format_enhanced_result(a) ==
    LET status_icon == Lookup(enhanced_status_icons, a.feasibility, ":question:")
        percent == FormatPercent(a.confidence)
    IN  IF status_icon.raised THEN status_icon
        ELSE IF percent.raised THEN percent
        ELSE Ok(ResultDict("enhanced",
                           status_icon.value \o " " \o PyStr(a.feasibility),
                           ":target: " \o percent.value,
                           a.explanation, a.api_requirements, a.integration_complexity,
                           a.business_context, a.caveats, a.related_endpoints,
                           a.integration_patterns, a.implementation_steps, a.sources, a))

confidence_map == [High |-> Num("0.9"), Medium |-> Num("0.6"), Low |-> Num("0.3")]

original_status_icons == [Yes |-> ":check:", No |-> ":cross:", Conditional |-> ":warning:"]

_format_original_result(a) ==
    LET feasibility == DictGet(a, "feasibility", Str("Conditional"))
        confidence == DictGet(a, "confidence", Str("Medium"))
        confidence_score == Lookup(confidence_map, confidence, Num("0.5"))
        status_icon == Lookup(original_status_icons, feasibility, ":question:")
    IN  IF confidence_score.raised THEN confidence_score
        ELSE IF status_icon.raised THEN status_icon
        ELSE Ok(ResultDict("original",
                           status_icon.value \o " " \o PyStr(feasibility),
                           ":target: " \o FormatPercent(confidence_score.value).value,
                           DictGet(a, "quick_answer", Str("Assessment completed")),
                           List(<<"Original analyzer - API requirements not detailed">>),
                           confidence,
                           DictGet(a, "business_impact", Str("Standard implementation")),
                           DictGet(a, "important_caveats", List(<<>>)),
                           List(<<>>),
                           DictGet(a, "related_features", List(<<>>)),
                           List(<<"Contact technical team for detailed implementation">>),
                           <<>>, Dict(a)))

_create_error_result(error) ==
    ResultDict("error", ":cross: ERROR", ":question: Unknown",
               Str("Assessment failed: " \o error),
               List(<<"Manual review required">>), Str("UNKNOWN"),
               Str("Unable to analyze due to system error"),
               List(<<"System error occurred", "Manual technical review needed">>),
               List(<<>>), List(<<>>), List(<<"Contact technical support">>),
               <<>>, Dict(<<>>))

\* the vector stores of the manager's enhanced analyzer
ManagerStores == _initialize_hybrid_knowledge_base(TRUE, DerivedKB(YAML_A))

EnhancedTry_RaisesOnFailure(c) ==
    LET search == hybrid_search(ManagerStores, c.question, DefaultK, c.failing, TRUE)
        attempt == AssessTry(c.question, search, c.enhanced_reply)
    IN  IF attempt.outcome.raised THEN Raise(attempt.outcome.error)
        ELSE IF Len(search.results) > 0 /\ c.enhanced_reply.kind \in {"text", "none"}
                /\ ParseEnhancedTry(c.enhanced_reply, search.results).raised
        THEN Raise(ParseEnhancedTry(c.enhanced_reply, search.results).error)
        ELSE _format_enhanced_result(attempt.outcome.value)

\* the first try block: the formatted result of the enhanced analyzer, or
\* the exception handed to the except clause.  c: the call, with what the
\* two chat models and the stores do during it
EnhancedTry(c) ==
    LET search == hybrid_search(ManagerStores, c.question, DefaultK, c.failing, TRUE)
        enhanced_result == assess_feasibility_enhanced(c.question, search,
                                                       c.enhanced_reply).assessment
    IN  _format_enhanced_result(enhanced_result)

\* the second try block
OriginalTry(c) ==
    _format_original_result(assess_feasibility(c.question, c.original_reply))

Manager_assess_feasibility_NoLastCatch(c) ==
    LET enhanced == IF c.use_enhanced /\ c.enhanced_available THEN EnhancedTry(c)
                    ELSE Raise("")
        original == OriginalTry(c)
    IN  IF c.use_enhanced /\ c.enhanced_available /\ ~enhanced.raised
        THEN [raised |-> FALSE, result |-> enhanced.value, warning |-> "", error |-> ""]
        ELSE [raised |-> original.raised,
              result |-> IF original.raised THEN NoValue ELSE original.value,
              warning |-> enhanced.error, error |-> original.error]

\* DualAnalyzerManager.assess_feasibility.  warning: the exception of the
\* enhanced path shown by st.warning; error: the exception of the original path
Manager_assess_feasibility(c) ==
    LET enhanced == IF c.use_enhanced /\ c.enhanced_available THEN EnhancedTry(c)
                    ELSE Raise("")
        original == OriginalTry(c)
    IN  IF c.use_enhanced /\ c.enhanced_available /\ ~enhanced.raised
        THEN [raised |-> FALSE, result |-> enhanced.value, warning |-> "", error |-> ""]
        ELSE [raised |-> FALSE,
              result |-> IF original.raised THEN _create_error_result(original.error)
                         ELSE original.value,
              warning |-> enhanced.error, error |-> original.error]

ManagerQuestions == {"How to integrate with a CRM system?", "What does it cost?"}

\* what the original analyzer's chat model does in the call
OriginalReplies ==
    {[kind |-> "raise", toks |-> <<>>], [kind |-> "none", toks |-> <<>>]}
    \cup {[kind |-> "text", toks |-> toks] :
             toks \in {<<"{", "}">>, <<"{", M_FEASIBILITY, "}">>,
                       <<"{", M_CONFIDENCE_LIST, "}">>, <<"Sure">>}}

ManagerAssessFeasibility ==
    /\ manager_call # NoValue
    /\ manager_result = NoValue
    /\ manager_result' = Manager_assess_feasibility(manager_call)
    /\ UNCHANGED manager_call
    /\ UNCHANGED exceptManager

\* enhanced_available: whether _initialize_enhanced_system succeeded
InitManager ==
    /\ manager_call \in [question : ManagerQuestions, use_enhanced : BOOLEAN,
                         enhanced_available : BOOLEAN, failing : FailureSets,
                         enhanced_reply : EnhancedReplies,
                         original_reply : OriginalReplies]
    /\ manager_result = NoValue

NextManager == ManagerAssessFeasibility

ResultKeys ==
    {"type", "status", "confidence", "explanation", "api_requirements",
     "integration_complexity", "business_context", "caveats", "related_endpoints",
     "integration_patterns", "implementation_steps", "sources", "raw_assessment"}

\* C19: DualAnalyzerManager.assess_feasibility never raises; whatever fails
\* in the enhanced path (the formatting of its result included) and in the
\* original path, it returns a result mapping with all its keys whose type
\* is enhanced, original or error: error exactly when the original path
\* failed too, with the error's text in the explanation.
C19_AlwaysAResult ==
    manager_result # NoValue =>
        /\ ~manager_result.raised
        /\ DOMAIN manager_result.result = ResultKeys
        /\ manager_result.result.type \in {"enhanced", "original", "error"}
        /\ manager_result.result.type = "enhanced" =>
              /\ manager_call.use_enhanced
              /\ manager_call.enhanced_available
              /\ manager_result.warning = ""
        /\ manager_result.result.type = "error" <=> manager_result.error # ""
        /\ manager_result.result.type = "error" =>
              manager_result.result.explanation
                = Str("Assessment failed: " \o manager_result.error)

\* the enhanced assessment carried the string "Low" as confidence, so its
\* formatting failed; the original analyzer's answer carried a list as
\* confidence, so its formatting failed too: the error result is returned
C19_Witness ==
    /\ manager_result # NoValue
    /\ manager_call.use_enhanced
    /\ manager_call.enhanced_available
    /\ manager_result.warning = "Unknown format code '%' for object of type 'str'"
    /\ manager_result.error = "unhashable type: 'list'"
    /\ ~manager_result.raised
    /\ manager_result.result.type = "error"

\* the enhanced analysis of the manager's call, as it ran
ManagerSearch ==
    hybrid_search(ManagerStores, manager_call.question, DefaultK, manager_call.failing, TRUE)

ManagerAttempt == AssessTry(manager_call.question, ManagerSearch, manager_call.enhanced_reply)

ManagerAssessment ==
    assess_feasibility_enhanced(manager_call.question, ManagerSearch,
                                manager_call.enhanced_reply).assessment

\* the prompt or the model call raised, or the model's text could not be parsed
ModelOrParsingFailed ==
    \/ ManagerAttempt.outcome.raised
    \/ /\ Len(ManagerSearch.results) > 0
       /\ manager_call.enhanced_reply.kind \in {"text", "none"}
       /\ ParseEnhancedTry(manager_call.enhanced_reply, ManagerSearch.results).raised

\* a collection's search raised during the hybrid search
SearchFailed == ManagerSearch.primary.errors \o ManagerSearch.context.errors # <<>>

EnhancedRequested ==
    /\ manager_result # NoValue
    /\ manager_call.use_enhanced
    /\ manager_call.enhanced_available

\* C21 (as stated): when the enhanced analyzer is available and requested
\* but its analysis fails (search, model call or parsing error), the result
\* has type original or error, not enhanced.
C21_Original ==
    EnhancedRequested /\ (SearchFailed \/ ModelOrParsingFailed) =>
        manager_result.result.type \in {"original", "error"}

\* C21 (amended): a failure of the search, the model call or the parsing is
\* caught inside the enhanced analyzer, which answers with its own
\* NEEDS_ANALYSIS fallback or with what the remaining searches found; the
\* manager returns that as a result of type enhanced.  It falls back to the
\* original analyzer (type original, or error if that fails too) exactly
\* when formatting the enhanced assessment raises.
C21_FallsBackOnFormatFailure ==
    EnhancedRequested =>
        LET formatted == _format_enhanced_result(ManagerAssessment)
        IN  /\ ModelOrParsingFailed =>
                  /\ ManagerAssessment.feasibility = Str("NEEDS_ANALYSIS")
                  /\ manager_result.result.type = "enhanced"
                  /\ manager_result.result.status = ":search: NEEDS_ANALYSIS"
            /\ manager_result.result.type = "enhanced" <=> ~formatted.raised
            /\ ~formatted.raised => manager_result.result = formatted.value
            /\ formatted.raised =>
                  /\ manager_result.result.type \in {"original", "error"}
                  /\ manager_result.warning = formatted.error

\* the model call of the enhanced analyzer raised and the result returned is
\* the enhanced analyzer's fallback, with the error in its explanation
C21_Witness ==
    /\ EnhancedRequested
    /\ manager_call.enhanced_reply.kind = "raise"
    /\ Len(ManagerSearch.results) > 0
    /\ manager_result.result.type = "enhanced"
    /\ manager_result.result.explanation
         = Str("Could not complete enhanced analysis. Rate limit exceeded")


(***************************************************************************)
(* The knowledge base of a specification and the collections seeded from   *)
(* it: APIDocsProcessor builds the knowledge base, then the constructor of *)
(* EnhancedFeasibilityAnalyzer populates its empty collections.            *)
(***************************************************************************)
SeedPaths ==
    {"/contracts/create", "/contracts/{id}/parties",
     "/contracts/{id}/parties/{party_id}/participants", "/third-parties"}

\* the method keys as a specification may write them
SeedMethods == {"post", "POST"}

SeedTags == {<<>>, <<"Contracts">>, <<"Accounts", "Contracts">>}

SeedOperations ==
    {Operation(path, method, "", tags, <<>>) :
        path \in SeedPaths, method \in SeedMethods, tags \in SeedTags}

MaxOps == 2

SeedSpecs ==
    {[t |-> "dict", version |-> "1.0", title |-> "OneFlow Public API", schemas |-> <<>>,
      paths |-> [t |-> "dict", ops |-> ops]] : ops \in SeqsUpTo(SeedOperations, MaxOps)}

\* the try block of _create_knowledge_base on the specification obtained
CreateKnowledgeBase ==
    /\ seed_kb = NoValue
    /\ seed_kb' = BuildKnowledgeBase(seed_spec, _extract_endpoints(seed_spec).value)
    /\ UNCHANGED <<seed_spec, seed_stores>>
    /\ UNCHANGED exceptSeed

\* EnhancedFeasibilityAnalyzer(use_existing_api_processor) on an empty database
InitializeHybridKnowledgeBase ==
    /\ seed_kb # NoValue
    /\ seed_stores = NoValue
    /\ \E use_existing_api_processor \in BOOLEAN :
          seed_stores' =
              [use_existing_api_processor |-> use_existing_api_processor,
               stores |-> _initialize_hybrid_knowledge_base(use_existing_api_processor,
                                                            seed_kb)]
    /\ UNCHANGED <<seed_spec, seed_kb>>
    /\ UNCHANGED exceptSeed

InitSeed ==
    /\ seed_spec \in SeedSpecs
    /\ seed_kb = NoValue
    /\ seed_stores = NoValue

NextSeed ==
    \/ CreateKnowledgeBase
    \/ InitializeHybridKnowledgeBase

\* the collections were populated with the existing processor in use
SeededFromProcessor == seed_stores # NoValue /\ seed_stores.use_existing_api_processor

\* C22 (as stated): populated from the existing processor, the
\* api_specifications collection holds as many documents as the knowledge
\* base has endpoints.
C22_Original ==
    SeededFromProcessor =>
        Len(seed_stores.stores["api_specifications"]) = EndpointCount(seed_kb)

\* the knowledge base has two endpoints and the collection populated from
\* it is empty
C22_Witness ==
    /\ SeededFromProcessor
    /\ EndpointCount(seed_kb) = 2
    /\ seed_stores.stores["api_specifications"] = <<>>

\* the operations of the specification that the endpoint record k comes from
WrittenAs(k) ==
    {op \in {seed_spec.paths.ops[i] : i \in 1..Len(seed_spec.paths.ops)} :
        upper(op.method) \o " " \o op.path = k}

\* C23 (as stated): in the knowledge base built from a specification, every
\* POST endpoint on a path with /parties has POST /contracts/create among
\* its prerequisites and the participants and publish endpoints among its
\* follow_ups; every POST endpoint on a path with /participants has POST
\* /contracts/create and POST /contracts/{id}/parties among its prerequisites.
C23_Original ==
    seed_kb # NoValue =>
        \A k \in DOMAIN seed_kb.endpoints :
            LET e == seed_kb.endpoints[k]
                Has(q, x) == \E i \in 1..Len(q) : q[i] = x
            IN  /\ e.method = "POST" /\ StrIn("/parties", e.path) =>
                      /\ Has(e.prerequisites, "POST /contracts/create")
                      /\ Has(e.follow_ups,
                             "POST /contracts/{id}/parties/{party_id}/participants")
                      /\ Has(e.follow_ups, "POST /contracts/{id}/publish")
                /\ e.method = "POST" /\ StrIn("/participants", e.path) =>
                      /\ Has(e.prerequisites, "POST /contracts/create")
                      /\ Has(e.prerequisites, "POST /contracts/{id}/parties")

\* the specification writes the method of the parties path as post, and the
\* endpoint POST /contracts/{id}/parties has no prerequisite and no follow-up
C23_Witness ==
    /\ seed_kb # NoValue
    /\ "POST /contracts/{id}/parties" \in DOMAIN seed_kb.endpoints
    /\ \A op \in WrittenAs("POST /contracts/{id}/parties") : op.method = "post"
    /\ seed_kb.endpoints["POST /contracts/{id}/parties"].prerequisites = <<>>
    /\ seed_kb.endpoints["POST /contracts/{id}/parties"].follow_ups = <<>>

\* C24 (as stated): every endpoint whose path contains "parties" has the
\* category contract_parties, whatever tags the operation declares.
C24_Original ==
    seed_kb # NoValue =>
        \A k \in DOMAIN seed_kb.endpoints :
            StrIn("parties", seed_kb.endpoints[k].path) =>
                seed_kb.endpoints[k].workflow_category = "contract_parties"

\* C24 (amended): the tags are looked at first.  An endpoint whose path
\* contains "parties" has the category contract_parties exactly when a tag
\* of its operation contains "contract" and none contains "account", "user",
\* "template" or "contact" (in any case of the letters); with an earlier
\* tag rule matching it has that rule's category, and with none of these
\* tags (and no webhook tag) it is general.
C24_TagsFirst ==
    seed_kb # NoValue =>
        \A k \in DOMAIN seed_kb.endpoints :
            LET e == seed_kb.endpoints[k]
                Tagged(word) == \E i \in 1..Len(e.tags) : StrIn(word, lower(e.tags[i]))
                earlier == \E w \in {"account", "user", "template", "contact"} : Tagged(w)
            IN  StrIn("parties", e.path) =>
                    /\ e.workflow_category = "contract_parties"
                          <=> (Tagged("contract") /\ ~earlier)
                    /\ Tagged("account") => e.workflow_category = "authentication_setup"
                    /\ ~earlier /\ ~Tagged("contract") /\ ~Tagged("webhook") =>
                          e.workflow_category = "general"

\* an endpoint on a parties path without tags is general, one tagged
\* Contracts is contract_parties
C24_Witness ==
    /\ seed_kb # NoValue
    /\ \E k \in DOMAIN seed_kb.endpoints :
          /\ StrIn("parties", seed_kb.endpoints[k].path)
          /\ seed_kb.endpoints[k].tags = <<>>
          /\ seed_kb.endpoints[k].workflow_category = "general"
    /\ \E k \in DOMAIN seed_kb.endpoints :
          /\ StrIn("parties", seed_kb.endpoints[k].path)
          /\ seed_kb.endpoints[k].tags = <<"Contracts">>
          /\ seed_kb.endpoints[k].workflow_category = "contract_parties"

(***************************************************************************)
(* enhanced_app_integration.py: main_enhanced, one script run per button.  *)
(***************************************************************************)
AnalysisModes == {"enhanced", "original"}

\* what the text input holds when a button is pressed
UserInputs == {"", "What does it cost?"}

\* the session's DualAnalyzerManager and what the two chat models answer in
\* a call: both analyzers answer; the enhanced answer cannot be formatted
\* and the original one neither; no enhanced analyzer and no original model
ManagerBehaviours ==
    {[enhanced_available |-> TRUE, failing |-> {},
      enhanced_reply |-> [kind |-> "text", error |-> "",
                          toks |-> <<"Sure", "{", M_FEASIBILITY_YES, M_CONFIDENCE_09, "}">>],
      original_reply |-> [kind |-> "text", toks |-> <<"{", "}">>]],
     [enhanced_available |-> TRUE, failing |-> {},
      enhanced_reply |-> [kind |-> "text", error |-> "",
                          toks |-> <<"{", M_FEASIBILITY, M_CONFIDENCE, "}", "Sure">>],
      original_reply |-> [kind |-> "text", toks |-> <<"{", M_CONFIDENCE_LIST, "}">>]],
     [enhanced_available |-> FALSE, failing |-> {},
      enhanced_reply |-> [kind |-> "none", toks |-> <<>>, error |-> ""],
      original_reply |-> [kind |-> "raise", toks |-> <<>>]]}

\* analyzer_manager.assess_feasibility(user_input,
\*     use_enhanced=(analysis_mode == "enhanced"))
ManagerCall(user_input, analysis_mode, b) ==
    [question |-> user_input, use_enhanced |-> (analysis_mode = "enhanced"),
     enhanced_available |-> b.enhanced_available, failing |-> b.failing,
     enhanced_reply |-> b.enhanced_reply, original_reply |-> b.original_reply]

\* the entry appended to the history (its timestamp, the wall clock, is
\* left out)
ProcessingEntry(user_input) == [question |-> user_input, status |-> "processing"]

\* conversation_history[-1].update({...})
UpdateLast(history, fields) == [history EXCEPT ![Len(history)] = fields @@ @]

\* the script run after the manager's call: answer is what the call did
AfterAssessment(appended, analysis_mode, answer) ==
    IF answer.raised THEN appended
    ELSE UpdateLast(appended, [result |-> answer.result, status |-> "complete",
                               analysis_mode |-> analysis_mode])

ProcessUserInput_ManagerRaises(history, count, user_input, analysis_mode, b) ==
    LET appended == Append(history, ProcessingEntry(user_input))
    IN  [assessment_count |-> count + 1, appended |-> appended,
         conversation_history |->
             AfterAssessment(appended, analysis_mode,
                 Manager_assess_feasibility_NoLastCatch(
                     ManagerCall(user_input, analysis_mode, b)))]

\* the block under `if assess_button and user_input`: appended is the
\* history while the assessment runs; an exception leaving the manager's
\* call would end the script run there
ProcessUserInput(history, count, user_input, analysis_mode, b) ==
    LET appended == Append(history, ProcessingEntry(user_input))
    IN  [assessment_count |-> count + 1, appended |-> appended,
         conversation_history |->
             AfterAssessment(appended, analysis_mode,
                 Manager_assess_feasibility(ManagerCall(user_input, analysis_mode, b)))]

\* the submissions of a session that the model follows
MaxAssessments == 3

UITrace(op, user_input, analysis_mode, appended) ==
    [op |-> op, user_input |-> user_input, analysis_mode |-> analysis_mode,
     history_before |-> conversation_history, count_before |-> assessment_count,
     appended |-> appended]

\* "Assess Feasibility" is pressed: with an empty text input the script run
\* only displays the history
AssessButton ==
    /\ assessment_count < MaxAssessments
    /\ \E user_input \in UserInputs, analysis_mode \in AnalysisModes,
          b \in ManagerBehaviours :
          IF user_input = ""
          THEN /\ UNCHANGED <<conversation_history, assessment_count>>
               /\ ui_trace' = UITrace("assess", user_input, analysis_mode,
                                      conversation_history)
          ELSE \E r \in {ProcessUserInput(conversation_history, assessment_count,
                                          user_input, analysis_mode, b)} :
                   /\ conversation_history' = r.conversation_history
                   /\ assessment_count' = r.assessment_count
                   /\ ui_trace' = UITrace("assess", user_input, analysis_mode, r.appended)
    /\ UNCHANGED exceptUI

\* "Clear Conversation" under the text input is pressed
ClearConversation ==
    /\ conversation_history' = <<>>
    /\ ui_trace' = UITrace("clear_conversation", "", "", <<>>)
    /\ UNCHANGED assessment_count
    /\ UNCHANGED exceptUI

\* "Clear History" in the sidebar is pressed
ClearHistory ==
    /\ conversation_history' = <<>>
    /\ ui_trace' = UITrace("clear_history", "", "", <<>>)
    /\ UNCHANGED assessment_count
    /\ UNCHANGED exceptUI

\* the first script run of a session: both keys are absent and are set
InitUI ==
    /\ conversation_history = <<>>
    /\ assessment_count = 0
    /\ ui_trace = [op |-> "none"]

NextUI ==
    \/ AssessButton
    \/ ClearConversation
    \/ ClearHistory

Submitted == ui_trace.op = "assess" /\ ui_trace.user_input # ""

\* C30: a submitted question appends exactly one entry with status
\* processing to the history, and when its handler has finished that entry,
\* the last one, has status complete and a result, the entries before it
\* being as they were; after any sequence of submissions and clears no entry
\* has status processing; assessment_count never decreases (a submission
\* adds one) and is at least the number of history entries.
C30_EntriesComplete ==
    /\ \A i \in 1..Len(conversation_history) :
          /\ conversation_history[i].status = "complete"
          /\ DOMAIN conversation_history[i].result = ResultKeys
    /\ assessment_count >= Len(conversation_history)
    /\ ui_trace.op # "none" => assessment_count >= ui_trace.count_before
    /\ Submitted =>
          /\ ui_trace.appended
                = Append(ui_trace.history_before, ProcessingEntry(ui_trace.user_input))
          /\ Len(conversation_history) = Len(ui_trace.appended)
          /\ \A i \in 1..Len(ui_trace.history_before) :
                conversation_history[i] = ui_trace.history_before[i]
          /\ conversation_history[Len(conversation_history)].question = ui_trace.user_input
          /\ conversation_history[Len(conversation_history)].analysis_mode
                = ui_trace.analysis_mode
          /\ assessment_count = ui_trace.count_before + 1

\* the history was cleared after two submissions and a third one was made:
\* its entry is the only one, complete with an error result, and three
\* assessments are counted
C30_Witness ==
    /\ Submitted
    /\ ui_trace.history_before = <<>>
    /\ ui_trace.count_before = 2
    /\ assessment_count = 3
    /\ Len(conversation_history) = 1
    /\ conversation_history[1].status = "complete"
    /\ conversation_history[1].result.type = "error"

(***************************************************************************)
(* Specifications: one per component; the other components stay idle.      *)
(***************************************************************************)
StartSimple == InitSimple /\ IdleKB /\ IdleLoader /\ IdleHybrid /\ IdleResponse /\ IdleManager /\ IdleSeed /\ IdleUI
StartFallback == InitFallback /\ IdleKB /\ IdleLoader /\ IdleHybrid /\ IdleResponse /\ IdleManager /\ IdleSeed /\ IdleUI
StartKB == InitKB /\ IdleSimple /\ IdleLoader /\ IdleHybrid /\ IdleResponse /\ IdleManager /\ IdleSeed /\ IdleUI
StartLoader == InitLoader /\ IdleSimple /\ IdleKB /\ IdleHybrid /\ IdleResponse /\ IdleManager /\ IdleSeed /\ IdleUI
StartIngest == InitIngest /\ IdleSimple /\ IdleKB /\ IdleLoader /\ IdleResponse /\ IdleManager /\ IdleSeed /\ IdleUI
StartHybrid == InitHybrid /\ IdleSimple /\ IdleKB /\ IdleLoader /\ IdleResponse /\ IdleManager /\ IdleSeed /\ IdleUI
StartResponse == InitResponse /\ IdleSimple /\ IdleKB /\ IdleLoader /\ IdleHybrid /\ IdleManager /\ IdleSeed /\ IdleUI
StartManager == InitManager /\ IdleSimple /\ IdleKB /\ IdleLoader /\ IdleHybrid /\ IdleResponse /\ IdleSeed /\ IdleUI
StartStores == InitIngest /\ IdleSimple /\ IdleKB /\ IdleLoader /\ IdleResponse /\ IdleManager /\ IdleSeed /\ IdleUI
StartSeed == InitSeed /\ IdleSimple /\ IdleKB /\ IdleLoader /\ IdleHybrid /\ IdleResponse /\ IdleManager /\ IdleUI
StartUI == InitUI /\ IdleSimple /\ IdleKB /\ IdleLoader /\ IdleHybrid /\ IdleResponse /\ IdleManager /\ IdleSeed

SpecSimple == StartSimple /\ [][NextSimple]_vars
SpecFallback == StartFallback /\ [][NextSimple]_vars
SpecKB == StartKB /\ [][NextKB]_vars
SpecLoader == StartLoader /\ [][NextLoader]_vars
SpecIngest == StartIngest /\ [][NextIngest]_vars
SpecHybrid == StartHybrid /\ [][NextHybrid]_vars
SpecResponse == StartResponse /\ [][NextResponse]_vars
SpecManager == StartManager /\ [][NextManager]_vars
SpecSeed == StartSeed /\ [][NextSeed]_vars
SpecStores == StartStores /\ [][NextStores]_vars
SpecUI == StartUI /\ [][NextUI]_vars
====
